---- MODULE Spec2Model ----
(***************************************************************************)
(* Model of shh's behavioural summarizer (src/src/summarize.rs).           *)
(*                                                                         *)
(* summarize() folds a stream of strace Syscall records into a list of     *)
(* ProgramAction values.  One loop iteration of summarize is one step of   *)
(* the state machine (Consume); the end of the stream is Finish; an Err    *)
(* item of the stream is IoError.                                          *)
(*                                                                         *)
(* Byte strings (paths, fd metadata) are sequences of one-character        *)
(* strings, so that the pseudo-fd regular expression, Path::is_relative,   *)
(* PathBuf::join and Path equality are computed and not assumed.           *)
(***************************************************************************)
EXTENDS Integers, Sequences, FiniteSets, TLC

\* Longest syscall stream explored under Spec.
MaxLen == 2
\* Longest syscall stream explored under SpecNet.
MaxNetLen == 3
\* The longest stream of open records
MaxOpenLen == 2
\* The longest stream of rename records
MaxRenameLen == 2
\* The longest stream of records with a socket address
MaxUdsLen == 2
\* The longest element list of a set specifier drawn as an input
MaxSetLen == 2
\* The most calls of remove on one set specifier
MaxRemoves == 2
\* The longest element list of the two arguments of intersects, and the most
\* calls of remove on the first of them
MaxPairLen == 1
MaxPairRemoves == 1
\* The longest stream of memory mapping records
MaxMmapLen == 2
\* The longest stream of epoll_ctl records
MaxEpollLen == 2
\* The most candidate values of an option of the catalog
MaxCandidates == 2
\* The longest list of actions given to the resolver
MaxObserved == 2
\* The longest stream of records a profiled command gives
MaxRunLen == 1
\* The most profile data paths on a command line
MaxPaths == 2
\* The most words of a command line given to the argument parser
MaxWords == 2

(***************************************************************************)
(* Option<T>                                                               *)
(***************************************************************************)
NoneOpt == [some |-> FALSE]
SomeOpt(x) == [some |-> TRUE, v |-> x]

(***************************************************************************)
(* strace::Expression and strace::IntegerExpressionValue, in the shapes    *)
(* summarize matches on.                                                   *)
(***************************************************************************)
Literal(n) == [k |-> "Literal", n |-> n]
NamedConst(s) == [k |-> "NamedConst", s |-> s]
\* es: a sequence of integer expression values
BinaryOr(es) == [k |-> "BinaryOr", es |-> es]

IntegerExpression(value, metadata) ==
    [t |-> "Integer", value |-> value, metadata |-> metadata]
\* type_ is "Unknown" or "AbstractPath"; the field `value` of the source is
\* `bytes` here, apart from the `value` of an integer expression
BufferExpression(bytes, type_) == [t |-> "Buffer", bytes |-> bytes, type_ |-> type_]
\* members: a function from member names to expressions
StructExpression(members) == [t |-> "Struct", members |-> members]
MacroExpression(name, args) == [t |-> "Macro", name |-> name, args |-> args]

\* An integer the tracer attached no metadata to
IntArg(value) == IntegerExpression(value, NoneOpt)
\* An integer with fd metadata bytes, e.g. AT_FDCWD</tmp>
FdArg(value, bytes) == IntegerExpression(value, SomeOpt(bytes))
\* A path buffer
Buf(bytes) == BufferExpression(bytes, "Unknown")

Syscall(pid, name, args, ret_val) ==
    [pid |-> pid, name |-> name, args |-> args, ret_val |-> ret_val]

\* IntegerExpressionValue::is_flag_set
RECURSIVE is_flag_set(_, _)
is_flag_set(value, flag) ==
    CASE value.k = "NamedConst" -> value.s = flag
      [] value.k = "BinaryOr" ->
            \E i \in 1..Len(value.es) : is_flag_set(value.es[i], flag)
      [] OTHER -> FALSE

\* IntegerExpressionValue::flags: the named components, in written order
RECURSIVE FlagsOfSeq(_)
RECURSIVE flags(_)
flags(value) ==
    CASE value.k = "NamedConst" -> <<value.s>>
      [] value.k = "BinaryOr" -> FlagsOfSeq(value.es)
      [] OTHER -> <<>>
FlagsOfSeq(es) ==
    IF es = <<>> THEN <<>> ELSE flags(Head(es)) \o FlagsOfSeq(Tail(es))

\* Expression::metadata: only integers carry metadata
metadata(e) == IF e.t = "Integer" THEN e.metadata ELSE NoneOpt

\* Vec::get with a 0-based index
ArgGet(args, idx) ==
    IF idx + 1 \in 1..Len(args) THEN SomeOpt(args[idx + 1]) ELSE NoneOpt

\* Pattern tests used by the handlers' `if let` / `let else`
IsInteger(o) == o.some /\ o.v.t = "Integer"
IsNamedConstInt(o) == IsInteger(o) /\ o.v.value.k = "NamedConst"
IsLiteralInt(o) == IsInteger(o) /\ o.v.value.k = "Literal"
IsUnknownBuffer(o) == o.some /\ o.v.t = "Buffer" /\ o.v.type_ = "Unknown"
IsStruct(o) == o.some /\ o.v.t = "Struct"

(***************************************************************************)
(* Paths                                                                   *)
(***************************************************************************)
Lower == {"a", "b", "c", "d", "e", "f", "g", "h", "i", "j", "k", "l", "m",
          "n", "o", "p", "q", "r", "s", "t", "u", "v", "w", "x", "y", "z"}
Digit == {"0", "1", "2", "3", "4", "5", "6", "7", "8", "9"}

\* Path::is_relative: no root
is_relative(p) == ~(Len(p) > 0 /\ p[1] = "/")

\* PathBuf::join (PathBuf::push): an absolute argument replaces the base; a
\* separator is added unless the base is empty or already ends with one
PathJoin(base, p) ==
    IF ~is_relative(p) THEN p
    ELSE IF Len(base) > 0 /\ base[Len(base)] # "/" THEN base \o <<"/">> \o p
    ELSE base \o p

\* FD_PSEUDO_PATH_REGEX: ^[a-z]+:\[[0-9a-z]+\]/?$
is_fd_pseudo_path(p) ==
    \E i \in 1..Len(p) : \E j \in (i + 3)..Len(p) :
        /\ \A x \in 1..i : p[x] \in Lower
        /\ p[i + 1] = ":"
        /\ p[i + 2] = "["
        /\ \A x \in (i + 3)..j : p[x] \in Lower \cup Digit
        /\ j + 1 <= Len(p)
        /\ p[j + 1] = "]"
        /\ \/ Len(p) = j + 1
           \/ Len(p) = j + 2 /\ p[j + 2] = "/"

\* The path components: the segments between separators, empty ones and
\* non-leading "." dropped (Path::components)
RECURSIVE Segments(_, _, _)
Segments(p, i, cur) ==
    IF i > Len(p) THEN (IF cur = <<>> THEN <<>> ELSE <<cur>>)
    ELSE IF p[i] = "/"
         THEN (IF cur = <<>> THEN <<>> ELSE <<cur>>) \o Segments(p, i + 1, <<>>)
         ELSE Segments(p, i + 1, Append(cur, p[i]))

RECURSIVE DropDots(_, _)
DropDots(segs, first) ==
    IF segs = <<>> THEN <<>>
    ELSE IF Head(segs) = <<".">> /\ ~first THEN DropDots(Tail(segs), FALSE)
    ELSE <<Head(segs)>> \o DropDots(Tail(segs), FALSE)

Components(p) ==
    [root |-> ~is_relative(p),
     segs |-> DropDots(Segments(p, 1, <<>>), is_relative(p))]

\* PartialEq for Path compares components, not bytes
PathEq(p, q) == Components(p) = Components(q)

\* The working directory canonicalize resolves a relative path against
Cwd == <<"/", "w">>

RECURSIVE JoinSegs(_)
JoinSegs(segs) ==
    IF segs = <<>> THEN <<>> ELSE <<"/">> \o Head(segs) \o JoinSegs(Tail(segs))

\* fs::canonicalize when it succeeds: an absolute path without empty or
\* "." components (symbolic links and ".." are not modelled)
Realpath(p) ==
    LET abs == IF is_relative(p) THEN PathJoin(Cwd, p) ELSE p
        segs == DropDots(Segments(abs, 1, <<>>), FALSE)
    IN IF segs = <<>> THEN <<"/">> ELSE JoinSegs(segs)

\* Path::canonicalize: fails when the file does not exist (exists = FALSE)
canonicalize(p, exists) == IF exists THEN SomeOpt(Realpath(p)) ELSE NoneOpt

(***************************************************************************)
(* ProgramAction and the set specifiers it carries                         *)
(***************************************************************************)
SetNone == [k |-> "None"]
SetOne(e) == [k |-> "One", e |-> e]
SetAll == [k |-> "All"]

Read(p) == [a |-> "Read", path |-> p]
Write(p) == [a |-> "Write", path |-> p]
Create(p) == [a |-> "Create", path |-> p]
NetworkActivity(af, proto, kind, local_port) ==
    [a |-> "NetworkActivity", af |-> af, proto |-> proto, kind |-> kind,
     local_port |-> local_port]
WriteExecuteMemoryMapping == [a |-> "WriteExecuteMemoryMapping"]
SetRealtimeScheduler == [a |-> "SetRealtimeScheduler"]
Wakeup == [a |-> "Wakeup"]
MknodSpecial == [a |-> "MknodSpecial"]
SetAlarm == [a |-> "SetAlarm"]
Syscalls(names) == [a |-> "Syscalls", names |-> names]

PathActions == {"Read", "Write", "Create"}

\* #[derive(PartialEq)] on ProgramAction: same variant and equal payload,
\* where the payload of a path action is compared as a Path
ActionEq(x, y) ==
    /\ x.a = y.a
    /\ IF x.a \in PathActions THEN PathEq(x.path, y.path) ELSE x = y

\* A dedup that drops every repeated action, adjacent or not
RECURSIVE DedupAllFrom(_, _, _)
DedupAllFrom(s, i, kept) ==
    IF i > Len(s) THEN kept
    ELSE IF \E j \in 1..Len(kept) : ActionEq(s[i], kept[j])
         THEN DedupAllFrom(s, i + 1, kept)
         ELSE DedupAllFrom(s, i + 1, Append(kept, s[i]))

DedupAll(s) == DedupAllFrom(s, 1, <<>>)

\* Vec::dedup: an element is dropped when it equals the last element kept
RECURSIVE DedupFrom(_, _, _)
DedupFrom(s, i, kept) ==
    IF i > Len(s) THEN kept
    ELSE IF kept # <<>> /\ ActionEq(s[i], kept[Len(kept)])
         THEN DedupFrom(s, i + 1, kept)
         ELSE DedupFrom(s, i + 1, Append(kept, s[i]))

Dedup(s) == DedupFrom(s, 1, <<>>)

(***************************************************************************)
(* systemd::SocketFamily and systemd::SocketProtocol parsing               *)
(***************************************************************************)
FamilyNames == {"AF_INET", "AF_INET6", "AF_UNIX", "AF_NETLINK"}

\* str::parse::<SocketFamily>
ParseSocketFamily(s) ==
    CASE s = "AF_INET" -> SomeOpt("Ipv4")
      [] s = "AF_INET6" -> SomeOpt("Ipv6")
      [] s \in FamilyNames -> SomeOpt(s)
      [] OTHER -> NoneOpt

\* str::parse::<SocketProtocol>
ParseSocketProtocol(s) ==
    CASE s = "SOCK_STREAM" -> SomeOpt("Tcp")
      [] s = "SOCK_DGRAM" -> SomeOpt("Udp")
      [] OTHER -> NoneOpt

\* The flag names f for which f.starts_with("SOCK_")
SockPrefixed == {"SOCK_STREAM", "SOCK_DGRAM", "SOCK_RAW", "SOCK_CLOEXEC",
                 "SOCK_NONBLOCK"}
\* The member names k for which k.ends_with("_port")
PortSuffixed == {"sin_port", "sin6_port"}

\* u16: the width of the `as u16` cast of the port literal
U16 == 65536

(***************************************************************************)
(* SYSCALL_MAP                                                             *)
(***************************************************************************)
NoInfo == [h |-> "None"]

SYSCALL_MAP(name) ==
    CASE name = "mknod" -> [h |-> "Mknod", mode_idx |-> 1]
      [] name = "mknodat" -> [h |-> "Mknod", mode_idx |-> 2]
      [] name \in {"mmap", "mmap2", "shmat", "mprotect", "pkey_mprotect"} ->
            [h |-> "Mmap", prot_idx |-> 2]
      [] name \in {"connect", "bind"} -> [h |-> "Network", sockaddr_idx |-> 1]
      [] name \in {"recvfrom", "sendto"} -> [h |-> "Network", sockaddr_idx |-> 4]
      [] name = "open" ->
            [h |-> "Open", relfd_idx |-> NoneOpt, path_idx |-> 0, flags_idx |-> 1]
      [] name = "openat" ->
            [h |-> "Open", relfd_idx |-> SomeOpt(0), path_idx |-> 1,
             flags_idx |-> 2]
      [] name = "rename" ->
            [h |-> "Rename", relfd_src_idx |-> NoneOpt, path_src_idx |-> 0,
             relfd_dst_idx |-> NoneOpt, path_dst_idx |-> 1,
             flags_idx |-> NoneOpt]
      [] name = "renameat" ->
            [h |-> "Rename", relfd_src_idx |-> SomeOpt(0), path_src_idx |-> 1,
             relfd_dst_idx |-> SomeOpt(2), path_dst_idx |-> 3,
             flags_idx |-> NoneOpt]
      [] name = "renameat2" ->
            [h |-> "Rename", relfd_src_idx |-> SomeOpt(0), path_src_idx |-> 1,
             relfd_dst_idx |-> SomeOpt(2), path_dst_idx |-> 3,
             flags_idx |-> SomeOpt(4)]
      [] name = "sched_setscheduler" -> [h |-> "SetScheduler"]
      [] name = "socket" -> [h |-> "Socket"]
      [] name \in {"fstat", "getdents"} -> [h |-> "StatFd", fd_idx |-> 0]
      [] name \in {"stat", "lstat"} ->
            [h |-> "StatPath", relfd_idx |-> NoneOpt, path_idx |-> 0]
      [] name = "newfstatat" ->
            [h |-> "StatPath", relfd_idx |-> SomeOpt(0), path_idx |-> 1]
      [] OTHER -> NoInfo

(***************************************************************************)
(* resolve_path                                                            *)
(***************************************************************************)
\* exists: whether canonicalize finds the path on the filesystem
resolve_path(path, relfd_idx, syscall, exists) ==
    LET md == IF relfd_idx.some /\ ArgGet(syscall.args, relfd_idx.v).some
              THEN metadata(ArgGet(syscall.args, relfd_idx.v).v)
              ELSE NoneOpt
        joined == IF is_relative(path)
                  THEN (IF md.some /\ ~is_fd_pseudo_path(md.v)
                        THEN SomeOpt(PathJoin(md.v, path))
                        ELSE NoneOpt)
                  ELSE SomeOpt(path)
    IN IF ~joined.some THEN NoneOpt
       ELSE LET c == canonicalize(joined.v, exists)
            IN SomeOpt(IF c.some THEN c.v ELSE joined.v)

socket_address_uds_path_any(members, syscall, exists) ==
    IF "sun_path" \in DOMAIN members /\ members["sun_path"].t = "Buffer"
    THEN resolve_path(members["sun_path"].bytes, NoneOpt, syscall, exists)
    ELSE NoneOpt

\* socket_address_uds_path: the path of a socket address that is not abstract
socket_address_uds_path(members, syscall, exists) ==
    IF "sun_path" \in DOMAIN members
          /\ IsUnknownBuffer(SomeOpt(members["sun_path"]))
    THEN resolve_path(members["sun_path"].bytes, NoneOpt, syscall, exists)
    ELSE NoneOpt

(***************************************************************************)
(* What one loop iteration of summarize does with a record: it pushes      *)
(* actions (and may record a socket), `continue`s, returns an error, or    *)
(* panics.                                                                 *)
(***************************************************************************)
Emit(acts, known) == [k |-> "emit", acts |-> acts, known |-> known]
Continue == [k |-> "continue"]
Fail(msg, syscall) == [k |-> "err", error |-> [msg |-> msg, syscall |-> syscall]]
Panic(what) == [k |-> "panic", what |-> what]

\* anyhow::bail!("Unexpected args for {}: {:?}", name, syscall.args)
UnexpectedArgs(syscall) == Fail("Unexpected args for", SomeOpt(syscall.name))

\* A conditional push
PushIf(cond, action) == IF cond THEN <<action>> ELSE <<>>

\* HashMap::insert
MapInsert(m, key, val) ==
    [x \in DOMAIN m \cup {key} |-> IF x = key THEN val ELSE m[x]]

\* An Open handler that takes a file opened for writing as not read
HandleOpenWriteNotRead(info, syscall, known, fs) ==
    LET p == ArgGet(syscall.args, info.path_idx)
        f == ArgGet(syscall.args, info.flags_idx)
    IN IF ~(IsUnknownBuffer(p) /\ IsInteger(f)) THEN UnexpectedArgs(syscall)
       ELSE LET path == resolve_path(p.v.bytes, info.relfd_idx, syscall, fs[1])
                fl == f.v.value
                write == \/ is_flag_set(fl, "O_WRONLY")
                         \/ is_flag_set(fl, "O_RDWR")
                         \/ is_flag_set(fl, "O_TRUNC")
            IN IF ~path.some THEN Continue
               ELSE Emit(PushIf(is_flag_set(fl, "O_CREAT"), Create(path.v))
                         \o PushIf(write, Write(path.v))
                         \o PushIf(~write, Read(path.v)),
                         known)

\* SyscallInfo::Open
HandleOpen(info, syscall, known, fs) ==
    LET p == ArgGet(syscall.args, info.path_idx)
        f == ArgGet(syscall.args, info.flags_idx)
    IN IF ~(IsUnknownBuffer(p) /\ IsInteger(f)) THEN UnexpectedArgs(syscall)
       ELSE LET path == resolve_path(p.v.bytes, info.relfd_idx, syscall, fs[1])
                fl == f.v.value
            IN IF ~path.some THEN Continue
               ELSE Emit(PushIf(is_flag_set(fl, "O_CREAT"), Create(path.v))
                         \o PushIf(is_flag_set(fl, "O_WRONLY")
                                     \/ is_flag_set(fl, "O_RDWR")
                                     \/ is_flag_set(fl, "O_TRUNC"),
                                   Write(path.v))
                         \o PushIf(~is_flag_set(fl, "O_WRONLY"), Read(path.v)),
                         known)

\* A Rename handler that resolves both paths against the source directory fd
HandleRenameOneDir(info, syscall, known, fs) ==
    LET b1 == ArgGet(syscall.args, info.path_src_idx)
        b2 == ArgGet(syscall.args, info.path_dst_idx)
    IN IF ~(IsUnknownBuffer(b1) /\ IsUnknownBuffer(b2))
       THEN UnexpectedArgs(syscall)
       ELSE LET src == resolve_path(b1.v.bytes, info.relfd_src_idx, syscall, fs[1])
                dst == resolve_path(b2.v.bytes, info.relfd_src_idx, syscall, fs[2])
            IN IF ~(src.some /\ dst.some) THEN Continue
               ELSE IF info.flags_idx.some
                       /\ ~IsInteger(ArgGet(syscall.args, info.flags_idx.v))
               THEN UnexpectedArgs(syscall)
               ELSE LET exchange ==
                          /\ info.flags_idx.some
                          /\ is_flag_set(
                                ArgGet(syscall.args, info.flags_idx.v).v.value,
                                "RENAME_EXCHANGE")
                    IN Emit(<<Read(src.v), Write(src.v),
                              IF exchange THEN Read(dst.v) ELSE Create(dst.v),
                              Write(dst.v)>>, known)

\* SyscallInfo::Rename
HandleRename(info, syscall, known, fs) ==
    LET b1 == ArgGet(syscall.args, info.path_src_idx)
        b2 == ArgGet(syscall.args, info.path_dst_idx)
    IN IF ~(IsUnknownBuffer(b1) /\ IsUnknownBuffer(b2))
       THEN UnexpectedArgs(syscall)
       ELSE LET src == resolve_path(b1.v.bytes, info.relfd_src_idx, syscall, fs[1])
                dst == resolve_path(b2.v.bytes, info.relfd_dst_idx, syscall, fs[2])
            IN IF ~(src.some /\ dst.some) THEN Continue
               ELSE IF info.flags_idx.some
                       /\ ~IsInteger(ArgGet(syscall.args, info.flags_idx.v))
               THEN UnexpectedArgs(syscall)
               ELSE LET exchange ==
                          /\ info.flags_idx.some
                          /\ is_flag_set(
                                ArgGet(syscall.args, info.flags_idx.v).v.value,
                                "RENAME_EXCHANGE")
                    IN Emit(<<Read(src.v), Write(src.v),
                              IF exchange THEN Read(dst.v) ELSE Create(dst.v),
                              Write(dst.v)>>, known)

\* SyscallInfo::StatFd
HandleStatFd(info, syscall, known, fs) ==
    LET a == ArgGet(syscall.args, info.fd_idx)
        md == IF a.some THEN metadata(a.v) ELSE NoneOpt
    IN IF ~md.some THEN UnexpectedArgs(syscall)
       ELSE LET path == resolve_path(md.v, NoneOpt, syscall, fs[1])
            IN IF ~path.some THEN Continue
               ELSE Emit(<<Read(path.v)>>, known)

\* A StatPath handler that skips a record whose path is no buffer
HandleStatPathLenient(info, syscall, known, fs) ==
    LET b == ArgGet(syscall.args, info.path_idx)
    IN IF ~IsUnknownBuffer(b) THEN Continue
       ELSE LET path == resolve_path(b.v.bytes, info.relfd_idx, syscall, fs[1])
            IN IF ~path.some THEN Continue
               ELSE Emit(<<Read(path.v)>>, known)

\* SyscallInfo::StatPath
HandleStatPath(info, syscall, known, fs) ==
    LET b == ArgGet(syscall.args, info.path_idx)
    IN IF ~IsUnknownBuffer(b) THEN UnexpectedArgs(syscall)
       ELSE LET path == resolve_path(b.v.bytes, info.relfd_idx, syscall, fs[1])
            IN IF ~path.some THEN Continue
               ELSE Emit(<<Read(path.v)>>, known)

\* The local_port of a bind: Ok(set), or a panic.  find_map takes the first
\* member ending in "_port" in HashMap order, which is unspecified when a
\* struct has two of them; the sockaddr structs have at most one.
BindLocalPort(members) ==
    LET ks == {k \in DOMAIN members : k \in PortSuffixed}
    IN IF ks = {} THEN SomeOpt(SetNone)
       ELSE LET m == members[CHOOSE k \in ks : TRUE]
            IN IF m.t = "Macro" /\ m.name = "htons"
               THEN IF IsLiteralInt(ArgGet(m.args, 0))
                    THEN LET port == ArgGet(m.args, 0).v.value.n % U16
                         \* NonZeroU16::try_from(0).unwrap()
                         IN IF port = 0 THEN NoneOpt ELSE SomeOpt(SetOne(port))
                    \* todo!()
                    ELSE NoneOpt
               ELSE SomeOpt(SetNone)

\* The `if name == "bind"` block of the Network handler; acts are the
\* actions the handler pushed before it
HandleBind(syscall, af, addr, acts, known) ==
    LET fd == ArgGet(syscall.args, 0)
    IN IF ~IsLiteralInt(fd) THEN UnexpectedArgs(syscall)
       ELSE IF ~ParseSocketFamily(af).some
       THEN Fail("Unable to parse socket family", NoneOpt)
       ELSE LET local_port == BindLocalPort(addr)
                key == <<syscall.pid, fd.v.value.n>>
            IN IF ~local_port.some THEN Panic("bind port")
               ELSE IF key \in DOMAIN known
               THEN Emit(Append(acts,
                                NetworkActivity(SetOne(ParseSocketFamily(af).v),
                                                SetOne(known[key]),
                                                SetOne("Bind"),
                                                local_port.v)),
                         known)
               ELSE Emit(acts, known)

\* SyscallInfo::Network
HandleNetwork(info, syscall, known, fs) ==
    LET sa == ArgGet(syscall.args, info.sockaddr_idx)
    IN IF ~IsStruct(sa) THEN Continue
       ELSE LET addr == sa.v.members
            IN IF ~("sa_family" \in DOMAIN addr
                    /\ IsNamedConstInt(SomeOpt(addr["sa_family"])))
               THEN UnexpectedArgs(syscall)
               ELSE LET af == addr["sa_family"].value.s
                        uds == IF af = "AF_UNIX"
                               THEN socket_address_uds_path(addr, syscall, fs[1])
                               ELSE NoneOpt
                        acts == IF uds.some THEN <<Read(uds.v)>> ELSE <<>>
                    IN IF syscall.name = "bind"
                       THEN HandleBind(syscall, af, addr, acts, known)
                       ELSE Emit(acts, known)

\* SyscallInfo::SetScheduler
HandleSetScheduler(info, syscall, known, fs) ==
    LET policy == ArgGet(syscall.args, 1)
    IN IF ~IsInteger(policy) THEN UnexpectedArgs(syscall)
       ELSE Emit(PushIf(is_flag_set(policy.v.value, "SCHED_FIFO")
                          \/ is_flag_set(policy.v.value, "SCHED_RR"),
                        SetRealtimeScheduler), known)

\* Iterator::find(|f| f.starts_with("SOCK_"))
RECURSIVE FindSockFlag(_)
FindSockFlag(fl) ==
    IF fl = <<>> THEN NoneOpt
    ELSE IF Head(fl) \in SockPrefixed THEN SomeOpt(Head(fl))
    ELSE FindSockFlag(Tail(fl))

\* A Socket handler that remembers only the sockets whose creation succeeded
HandleSocketCreatedOnly(info, syscall, known, fs) ==
    LET a0 == ArgGet(syscall.args, 0)
        a1 == ArgGet(syscall.args, 1)
    IN IF ~IsNamedConstInt(a0) THEN UnexpectedArgs(syscall)
       ELSE IF ~ParseSocketFamily(a0.v.value.s).some
       THEN Fail("Unable to parse socket family", NoneOpt)
       ELSE IF ~IsInteger(a1) THEN UnexpectedArgs(syscall)
       ELSE LET proto_flag == FindSockFlag(flags(a1.v.value))
            IN IF ~proto_flag.some
               THEN Fail("Unable to parse socket protocol from flags", NoneOpt)
               ELSE IF ~ParseSocketProtocol(proto_flag.v).some
               THEN Fail("Unable to parse socket protocol", NoneOpt)
               ELSE LET proto == ParseSocketProtocol(proto_flag.v).v
                    IN Emit(<<NetworkActivity(
                                SetOne(ParseSocketFamily(a0.v.value.s).v),
                                SetOne(proto),
                                SetOne("SocketCreation"),
                                SetAll)>>,
                            IF syscall.ret_val >= 0
                            THEN MapInsert(known,
                                           <<syscall.pid, syscall.ret_val>>, proto)
                            ELSE known)

\* SyscallInfo::Socket
HandleSocket(info, syscall, known, fs) ==
    LET a0 == ArgGet(syscall.args, 0)
        a1 == ArgGet(syscall.args, 1)
    IN IF ~IsNamedConstInt(a0) THEN UnexpectedArgs(syscall)
       ELSE IF ~ParseSocketFamily(a0.v.value.s).some
       THEN Fail("Unable to parse socket family", NoneOpt)
       ELSE IF ~IsInteger(a1) THEN UnexpectedArgs(syscall)
       ELSE LET proto_flag == FindSockFlag(flags(a1.v.value))
            IN IF ~proto_flag.some
               THEN Fail("Unable to parse socket protocol from flags", NoneOpt)
               ELSE IF ~ParseSocketProtocol(proto_flag.v).some
               THEN Fail("Unable to parse socket protocol", NoneOpt)
               ELSE LET proto == ParseSocketProtocol(proto_flag.v).v
                    IN Emit(<<NetworkActivity(
                                SetOne(ParseSocketFamily(a0.v.value.s).v),
                                SetOne(proto),
                                SetOne("SocketCreation"),
                                SetAll)>>,
                            MapInsert(known, <<syscall.pid, syscall.ret_val>>,
                                      proto))

\* SyscallInfo::Mknod
HandleMknod(info, syscall, known, fs) ==
    LET mode == ArgGet(syscall.args, info.mode_idx)
    IN IF ~IsInteger(mode) THEN UnexpectedArgs(syscall)
       ELSE Emit(PushIf(\E pm \in {"S_IFBLK", "S_IFCHR"} :
                            is_flag_set(mode.v.value, pm),
                        MknodSpecial), known)

\* A Mmap handler that takes either of the two protections as enough
HandleMmapEither(info, syscall, known, fs) ==
    LET prot == ArgGet(syscall.args, info.prot_idx)
    IN IF ~IsInteger(prot) THEN UnexpectedArgs(syscall)
       ELSE Emit(PushIf(is_flag_set(prot.v.value, "PROT_WRITE")
                          \/ is_flag_set(prot.v.value, "PROT_EXEC"),
                        WriteExecuteMemoryMapping), known)

\* SyscallInfo::Mmap
HandleMmap(info, syscall, known, fs) ==
    LET prot == ArgGet(syscall.args, info.prot_idx)
    IN IF ~IsInteger(prot) THEN UnexpectedArgs(syscall)
       ELSE Emit(PushIf(is_flag_set(prot.v.value, "PROT_WRITE")
                          /\ is_flag_set(prot.v.value, "PROT_EXEC"),
                        WriteExecuteMemoryMapping), known)

\* An epoll_ctl branch that reads the event whatever the operation is
HandleEpollCtlAnyOp(info, syscall, known, fs) ==
    LET evt == ArgGet(syscall.args, 3)
    IN IF ~evt.some THEN Fail("Missing epoll event argument", NoneOpt)
       ELSE IF evt.v.t # "Struct"
       THEN Fail("Invalid epoll event argument", NoneOpt)
       ELSE IF "events" \notin DOMAIN evt.v.members
       THEN Fail("Missing epoll events struct member", NoneOpt)
       ELSE IF evt.v.members["events"].t # "Integer"
       THEN Fail("Invalid epoll struct member", NoneOpt)
       ELSE Emit(PushIf(is_flag_set(evt.v.members["events"].value,
                                    "EPOLLWAKEUP"), Wakeup), known)

\* "epoll_ctl", a name SYSCALL_MAP does not hold
HandleEpollCtl(info, syscall, known, fs) ==
    LET op == ArgGet(syscall.args, 1)
        evt == ArgGet(syscall.args, 3)
    IN IF ~(IsNamedConstInt(op) /\ op.v.value.s = "EPOLL_CTL_ADD")
       THEN Emit(<<>>, known)
       ELSE IF ~evt.some THEN Fail("Missing epoll event argument", NoneOpt)
       ELSE IF evt.v.t # "Struct"
       THEN Fail("Invalid epoll event argument", NoneOpt)
       ELSE IF "events" \notin DOMAIN evt.v.members
       THEN Fail("Missing epoll events struct member", NoneOpt)
       ELSE IF evt.v.members["events"].t # "Integer"
       THEN Fail("Invalid epoll struct member", NoneOpt)
       ELSE Emit(PushIf(is_flag_set(evt.v.members["events"].value,
                                    "EPOLLWAKEUP"), Wakeup), known)

\* "timer_create", a name SYSCALL_MAP does not hold
HandleTimerCreate(info, syscall, known, fs) ==
    LET clock == ArgGet(syscall.args, 0)
    IN IF ~IsNamedConstInt(clock) THEN UnexpectedArgs(syscall)
       ELSE Emit(PushIf(clock.v.value.s \in {"CLOCK_REALTIME_ALARM",
                                             "CLOCK_BOOTTIME_ALARM"},
                        SetAlarm), known)

\* The `match SYSCALL_MAP.get(name)` of the loop body.  fs[1], fs[2]: whether
\* the first and the second path the handler resolves exist on the
\* filesystem.
Handle(syscall, known, fs) ==
    LET info == SYSCALL_MAP(syscall.name)
    IN CASE info.h = "Open" -> HandleOpen(info, syscall, known, fs)
         [] info.h = "Rename" -> HandleRename(info, syscall, known, fs)
         [] info.h = "StatFd" -> HandleStatFd(info, syscall, known, fs)
         [] info.h = "StatPath" -> HandleStatPath(info, syscall, known, fs)
         [] info.h = "Network" -> HandleNetwork(info, syscall, known, fs)
         [] info.h = "SetScheduler" -> HandleSetScheduler(info, syscall, known, fs)
         [] info.h = "Socket" -> HandleSocket(info, syscall, known, fs)
         [] info.h = "Mknod" -> HandleMknod(info, syscall, known, fs)
         [] info.h = "Mmap" -> HandleMmap(info, syscall, known, fs)
         [] info.h = "None" /\ syscall.name = "epoll_ctl" ->
               HandleEpollCtl(info, syscall, known, fs)
         [] info.h = "None" /\ syscall.name = "timer_create" ->
               HandleTimerCreate(info, syscall, known, fs)
         [] OTHER -> Emit(<<>>, known)

\* A stats that leaves out the names SYSCALL_MAP does not hold
StatsCountHandled(st, name) ==
    IF SYSCALL_MAP(name) = NoInfo THEN st
    ELSE IF name \in DOMAIN st THEN [st EXCEPT ![name] = @ + 1]
    ELSE MapInsert(st, name, 1)

\* stats.entry(name).and_modify(|c| *c += 1).or_insert(1)
StatsCount(st, name) ==
    IF name \in DOMAIN st THEN [st EXCEPT ![name] = @ + 1]
    ELSE MapInsert(st, name, 1)

(***************************************************************************)
(* The syscall records explored.  Byte strings first.                      *)
(***************************************************************************)
PathA == <<"/", "a">>
PathASlash == <<"/", "a", "/">>
PathB == <<"/", "b">>
PathS == <<"/", "s">>
RelA == <<"a">>
RelB == <<"b">>
DirD == <<"/", "d">>
DirE == <<"/", "e">>
Empty == <<>>
PipeMd == <<"p", "i", "p", "e", ":", "[", "1", "]">>
SocketMd == <<"s", "o", "c", "k", "e", "t", ":", "[", "1", "]", "/">>
EpollMd == <<"a", "n", "o", "n", "_", "i", "n", "o", "d", "e", ":", "[",
             "e", "v", "e", "n", "t", "p", "o", "l", "l", "]">>
InotifyMd == <<"a", "n", "o", "n", "_", "i", "n", "o", "d", "e", ":",
               "i", "n", "o", "t", "i", "f", "y">>

AT_FDCWD == NamedConst("AT_FDCWD")
Flag(s) == IntArg(NamedConst(s))
Or2(s1, s2) == IntArg(BinaryOr(<<NamedConst(s1), NamedConst(s2)>>))
Or3(s1, s2, s3) ==
    IntArg(BinaryOr(<<NamedConst(s1), NamedConst(s2), NamedConst(s3)>>))
Num(n) == IntArg(Literal(n))
Htons(e) == MacroExpression("htons", <<e>>)
Sockaddr(family, port_member, port) ==
    StructExpression(("sa_family" :> Flag(family)) @@ (port_member :> port))
SockaddrUn(sun_path) ==
    StructExpression(("sa_family" :> Flag("AF_UNIX")) @@ ("sun_path" :> sun_path))

\* open, openat
OpenRecords == {
    \* open("/a", O_RDONLY) = 3
    Syscall(1, "open", <<Buf(PathA), Flag("O_RDONLY")>>, 3),
    \* open("/a", O_WRONLY|O_CREAT|O_TRUNC) = 3
    Syscall(1, "open", <<Buf(PathA), Or3("O_WRONLY", "O_CREAT", "O_TRUNC")>>, 3),
    \* open("/a", O_RDWR|O_CREAT) = 3
    Syscall(1, "open", <<Buf(PathA), Or2("O_RDWR", "O_CREAT")>>, 3),
    \* openat(AT_FDCWD</d>, "a", O_RDWR) = 3
    Syscall(1, "openat", <<FdArg(AT_FDCWD, DirD), Buf(RelA), Flag("O_RDWR")>>, 3),
    \* openat(AT_FDCWD, "a", O_RDONLY) = 3
    Syscall(1, "openat", <<IntArg(AT_FDCWD), Buf(RelA), Flag("O_RDONLY")>>, 3),
    \* openat(4<pipe:[1]>, "a", O_RDONLY) = -1
    Syscall(1, "openat", <<FdArg(Literal(4), PipeMd), Buf(RelA),
                           Flag("O_RDONLY")>>, -1),
    \* openat(4<anon_inode:[eventpoll]>, "a", O_RDONLY) = -1
    Syscall(1, "openat", <<FdArg(Literal(4), EpollMd), Buf(RelA),
                           Flag("O_RDONLY")>>, -1),
    \* openat(4<>, "pipe:[1]", O_RDONLY) = -1
    Syscall(1, "openat", <<FdArg(Literal(4), Empty), Buf(PipeMd),
                           Flag("O_RDONLY")>>, -1),
    \* open(5, O_RDONLY): the path is no buffer
    Syscall(1, "open", <<Num(5), Flag("O_RDONLY")>>, 3),
    \* open("/a"): no flags
    Syscall(1, "open", <<Buf(PathA)>>, 3)
}

\* rename, renameat, renameat2
RenameRecords == {
    \* rename("/a", "/b") = 0
    Syscall(1, "rename", <<Buf(PathA), Buf(PathB)>>, 0),
    \* renameat(AT_FDCWD</d>, "a", AT_FDCWD</e>, "b", RENAME_NOREPLACE) = 0
    Syscall(1, "renameat", <<FdArg(AT_FDCWD, DirD), Buf(RelA),
                             FdArg(AT_FDCWD, DirE), Buf(RelB),
                             Flag("RENAME_NOREPLACE")>>, 0),
    \* renameat2(AT_FDCWD</d>, "a", AT_FDCWD</d>, "a", RENAME_EXCHANGE) = 0
    Syscall(1, "renameat2", <<FdArg(AT_FDCWD, DirD), Buf(RelA),
                              FdArg(AT_FDCWD, DirD), Buf(RelA),
                              Flag("RENAME_EXCHANGE")>>, 0),
    \* renameat2(AT_FDCWD, "a", AT_FDCWD, "b", "a"): no metadata, flags a buffer
    Syscall(1, "renameat2", <<IntArg(AT_FDCWD), Buf(RelA), IntArg(AT_FDCWD),
                              Buf(RelB), Buf(RelA)>>, 0),
    \* renameat2(AT_FDCWD</d>, "a", AT_FDCWD</d>, "b", "a"): flags a buffer
    Syscall(1, "renameat2", <<FdArg(AT_FDCWD, DirD), Buf(RelA),
                              FdArg(AT_FDCWD, DirD), Buf(RelB), Buf(RelA)>>, 0),
    \* rename("/a"): no destination
    Syscall(1, "rename", <<Buf(PathA)>>, 0)
}

\* fstat, stat, newfstatat
StatRecords == {
    \* fstat(3</a>, {...}) = 0
    Syscall(1, "fstat", <<FdArg(Literal(3), PathA)>>, 0),
    \* fstat(3<socket:[1]/>, {...}) = 0
    Syscall(1, "fstat", <<FdArg(Literal(3), SocketMd)>>, 0),
    \* fstat(3<anon_inode:inotify>, {...}) = 0
    Syscall(1, "fstat", <<FdArg(Literal(3), InotifyMd)>>, 0),
    \* fstat(3, {...}): no metadata
    Syscall(1, "fstat", <<Num(3)>>, 0),
    \* stat("/a", {...}) = 0
    Syscall(1, "stat", <<Buf(PathA)>>, 0),
    \* stat("/a/", {...}) = 0
    Syscall(1, "stat", <<Buf(PathASlash)>>, 0),
    \* stat(5): the path is no buffer
    Syscall(1, "stat", <<Num(5)>>, 0),
    \* newfstatat(AT_FDCWD</d>, "a", {...}, 0) = 0
    Syscall(1, "newfstatat", <<FdArg(AT_FDCWD, DirD), Buf(RelA)>>, 0)
}

\* socket
SocketRecords == {
    \* socket(AF_INET, SOCK_STREAM|SOCK_CLOEXEC, IPPROTO_IP) = 5
    Syscall(1, "socket", <<Flag("AF_INET"), Or2("SOCK_STREAM", "SOCK_CLOEXEC"),
                           Flag("IPPROTO_IP")>>, 5),
    \* socket(AF_INET, SOCK_CLOEXEC|SOCK_STREAM, IPPROTO_IP) = 5
    Syscall(1, "socket", <<Flag("AF_INET"), Or2("SOCK_CLOEXEC", "SOCK_STREAM"),
                           Flag("IPPROTO_IP")>>, 5),
    \* socket(AF_INET, SOCK_RAW, IPPROTO_IP) = 5
    Syscall(1, "socket", <<Flag("AF_INET"), Flag("SOCK_RAW"),
                           Flag("IPPROTO_IP")>>, 5),
    \* socket(AF_INET, 0, IPPROTO_IP) = -1: no SOCK_ flag
    Syscall(1, "socket", <<Flag("AF_INET"), Num(0), Flag("IPPROTO_IP")>>, -1),
    \* socket(PF_X, SOCK_STREAM, IPPROTO_IP): a family that does not parse
    Syscall(1, "socket", <<Flag("PF_X"), Flag("SOCK_STREAM"),
                           Flag("IPPROTO_IP")>>, 5),
    \* socket(2, SOCK_STREAM, 0): the family is a literal
    Syscall(1, "socket", <<Num(2), Flag("SOCK_STREAM"), Num(0)>>, 5),
    \* socket(AF_INET): no type
    Syscall(1, "socket", <<Flag("AF_INET")>>, 5),
    \* socket(PF_X): no type, and a family that does not parse
    Syscall(1, "socket", <<Flag("PF_X")>>, 5)
}

\* connect, bind, recvfrom, sendto
NetworkRecords == {
    \* bind(5, {sa_family=AF_INET, sin_port=htons(8080)}, 16) = 0
    Syscall(1, "bind", <<Num(5), Sockaddr("AF_INET", "sin_port", Htons(Num(8080))),
                         Num(16)>>, 0),
    \* bind(5, {sa_family=AF_INET, sin_port=htons(0)}, 16) = 0
    Syscall(1, "bind", <<Num(5), Sockaddr("AF_INET", "sin_port", Htons(Num(0))),
                         Num(16)>>, 0),
    \* bind(5, {sa_family=AF_INET, sin_port=htons(65536)}, 16) = 0
    Syscall(1, "bind", <<Num(5), Sockaddr("AF_INET", "sin_port", Htons(Num(65536))),
                         Num(16)>>, 0),
    \* bind(5, {sa_family=AF_INET, sin_port=htons(65616)}, 16) = 0
    Syscall(1, "bind", <<Num(5), Sockaddr("AF_INET", "sin_port", Htons(Num(65616))),
                         Num(16)>>, 0),
    \* bind(5, {sa_family=AF_INET, sin_port=htons(PORT)}, 16) = 0
    Syscall(1, "bind", <<Num(5), Sockaddr("AF_INET", "sin_port", Htons(Flag("PORT"))),
                         Num(16)>>, 0),
    \* bind(5, {sa_family=AF_UNIX, sun_path="/s"}, 4) = 0
    Syscall(1, "bind", <<Num(5), SockaddrUn(Buf(PathS)), Num(4)>>, 0),
    \* bind(5, NULL, 0) = -1
    Syscall(1, "bind", <<Num(5), Flag("NULL"), Num(0)>>, -1),
    \* bind(5, {sin_port=htons(80)}, 16): no sa_family
    Syscall(1, "bind", <<Num(5),
                         StructExpression("sin_port" :> Htons(Num(80))),
                         Num(16)>>, 0),
    \* bind(AT_FDCWD, {sa_family=AF_INET, sin_port=htons(80)}, 16): fd no literal
    Syscall(1, "bind", <<IntArg(AT_FDCWD),
                         Sockaddr("AF_INET", "sin_port", Htons(Num(80))),
                         Num(16)>>, -1),
    \* bind(5, {sa_family=PF_X, sin_port=htons(80)}, 16): unparsable family
    Syscall(1, "bind", <<Num(5), Sockaddr("PF_X", "sin_port", Htons(Num(80))),
                         Num(16)>>, -1),
    \* connect(4, {sa_family=AF_UNIX, sun_path="/s"}, 33) = 0
    Syscall(1, "connect", <<Num(4), SockaddrUn(Buf(PathS)), Num(33)>>, 0),
    \* connect(4, {sa_family=AF_UNIX, sun_path=@"a"}, 33) = 0
    Syscall(1, "connect", <<Num(4),
                            SockaddrUn(BufferExpression(RelA, "AbstractPath")),
                            Num(33)>>, 0),
    \* connect(4): no sockaddr
    Syscall(1, "connect", <<Num(4)>>, 0),
    \* sendto(4, "a", 1, 0, NULL, 0) = 1
    Syscall(1, "sendto", <<Num(4), Buf(RelA), Num(1), Num(0), Flag("NULL"),
                           Num(0)>>, 1)
}

\* sched_setscheduler, mknod, mmap, epoll_ctl, timer_create and a syscall
\* without handler
OtherRecords == {
    \* sched_setscheduler(0, SCHED_FIFO, [1]) = 0
    Syscall(1, "sched_setscheduler", <<Num(0), Flag("SCHED_FIFO")>>, 0),
    \* sched_setscheduler(0, SCHED_OTHER, [0]) = 0
    Syscall(1, "sched_setscheduler", <<Num(0), Flag("SCHED_OTHER")>>, 0),
    \* sched_setscheduler(0): no policy
    Syscall(1, "sched_setscheduler", <<Num(0)>>, 0),
    \* mknod("/a", S_IFCHR|0600, makedev(1, 3)) = 0
    Syscall(1, "mknod", <<Buf(PathA),
                          IntArg(BinaryOr(<<NamedConst("S_IFCHR"), Literal(384)>>))>>,
            0),
    \* mknod("/a", S_IFREG|0600) = 0
    Syscall(1, "mknod", <<Buf(PathA),
                          IntArg(BinaryOr(<<NamedConst("S_IFREG"), Literal(384)>>))>>,
            0),
    \* mknod("/a"): no mode
    Syscall(1, "mknod", <<Buf(PathA)>>, 0),
    \* mmap(NULL, 4096, PROT_READ|PROT_WRITE|PROT_EXEC, ...) = 0x7f
    Syscall(1, "mmap", <<Flag("NULL"), Num(4096),
                         Or3("PROT_READ", "PROT_WRITE", "PROT_EXEC")>>, 127),
    \* mmap(NULL, 4096, PROT_READ|PROT_WRITE, ...) = 0x7f
    Syscall(1, "mmap", <<Flag("NULL"), Num(4096), Or2("PROT_READ", "PROT_WRITE")>>,
            127),
    \* mmap(NULL, 4096): no protection
    Syscall(1, "mmap", <<Flag("NULL"), Num(4096)>>, 127),
    \* epoll_ctl(4, EPOLL_CTL_ADD, 5, {events=EPOLLIN|EPOLLWAKEUP}) = 0
    Syscall(1, "epoll_ctl", <<Num(4), Flag("EPOLL_CTL_ADD"), Num(5),
                StructExpression("events" :> Or2("EPOLLIN", "EPOLLWAKEUP"))>>, 0),
    \* epoll_ctl(4, EPOLL_CTL_ADD, 5, {events=EPOLLIN}) = 0
    Syscall(1, "epoll_ctl", <<Num(4), Flag("EPOLL_CTL_ADD"), Num(5),
                StructExpression("events" :> Flag("EPOLLIN"))>>, 0),
    \* epoll_ctl(4, EPOLL_CTL_DEL, 5, NULL) = 0
    Syscall(1, "epoll_ctl", <<Num(4), Flag("EPOLL_CTL_DEL"), Num(5),
                              Flag("NULL")>>, 0),
    \* epoll_ctl(4, EPOLL_CTL_ADD, 5): no event
    Syscall(1, "epoll_ctl", <<Num(4), Flag("EPOLL_CTL_ADD"), Num(5)>>, 0),
    \* epoll_ctl(4, EPOLL_CTL_ADD, 5, NULL): the event is no struct
    Syscall(1, "epoll_ctl", <<Num(4), Flag("EPOLL_CTL_ADD"), Num(5),
                              Flag("NULL")>>, 0),
    \* epoll_ctl(4): no operation
    Syscall(1, "epoll_ctl", <<Num(4)>>, 0),
    \* timer_create(CLOCK_REALTIME_ALARM, NULL, [0]) = 0
    Syscall(1, "timer_create", <<Flag("CLOCK_REALTIME_ALARM")>>, 0),
    \* timer_create(CLOCK_MONOTONIC, NULL, [0]) = 0
    Syscall(1, "timer_create", <<Flag("CLOCK_MONOTONIC")>>, 0),
    \* timer_create(7, NULL, [0]): the clock is a literal
    Syscall(1, "timer_create", <<Num(7)>>, 0),
    \* read(3, "a", 1) = 1
    Syscall(1, "read", <<Num(3), Buf(RelA), Num(1)>>, 1)
}

Records ==
    OpenRecords \cup RenameRecords \cup StatRecords \cup SocketRecords
        \cup NetworkRecords \cup OtherRecords

\* The socket and bind records of two processes
NetRecords == {
    \* [pid 1] socket(AF_INET, SOCK_STREAM|SOCK_CLOEXEC, IPPROTO_IP) = 5
    Syscall(1, "socket", <<Flag("AF_INET"), Or2("SOCK_STREAM", "SOCK_CLOEXEC"),
                           Flag("IPPROTO_IP")>>, 5),
    \* [pid 1] socket(AF_INET, SOCK_DGRAM, IPPROTO_IP) = 5
    Syscall(1, "socket", <<Flag("AF_INET"), Flag("SOCK_DGRAM"),
                           Flag("IPPROTO_IP")>>, 5),
    \* [pid 2] socket(AF_INET6, SOCK_DGRAM|SOCK_NONBLOCK, IPPROTO_IP) = 5
    Syscall(2, "socket", <<Flag("AF_INET6"), Or2("SOCK_DGRAM", "SOCK_NONBLOCK"),
                           Flag("IPPROTO_IP")>>, 5),
    \* [pid 1] socket(AF_INET, SOCK_STREAM, IPPROTO_IP) = -1 EMFILE
    Syscall(1, "socket", <<Flag("AF_INET"), Flag("SOCK_STREAM"),
                           Flag("IPPROTO_IP")>>, -1),
    \* [pid 1] socket(AF_INET, SOCK_CLOEXEC|SOCK_STREAM, IPPROTO_IP) = 5
    Syscall(1, "socket", <<Flag("AF_INET"), Or2("SOCK_CLOEXEC", "SOCK_STREAM"),
                           Flag("IPPROTO_IP")>>, 5),
    \* [pid 1] bind(5, {sa_family=AF_INET, sin_port=htons(8080)}, 16) = 0
    Syscall(1, "bind", <<Num(5), Sockaddr("AF_INET", "sin_port", Htons(Num(8080))),
                         Num(16)>>, 0),
    \* [pid 2] bind(5, {sa_family=AF_INET6, sin6_port=htons(443)}, 28) = 0
    Syscall(2, "bind", <<Num(5), Sockaddr("AF_INET6", "sin6_port", Htons(Num(443))),
                         Num(28)>>, 0),
    \* [pid 1] bind(5, {sa_family=AF_UNIX, sun_path="/s"}, 4) = 0
    Syscall(1, "bind", <<Num(5), SockaddrUn(Buf(PathS)), Num(4)>>, 0),
    \* [pid 1] bind(-1, {sa_family=AF_INET, sin_port=htons(53)}, 16) = -1 EBADF
    Syscall(1, "bind", <<Num(-1), Sockaddr("AF_INET", "sin_port", Htons(Num(53))),
                         Num(16)>>, -1),
    \* [pid 1] bind(6, {sa_family=AF_INET, sin_port=htons(8080)}, 16) = -1 EBADF
    Syscall(1, "bind", <<Num(6), Sockaddr("AF_INET", "sin_port", Htons(Num(8080))),
                         Num(16)>>, -1),
    \* [pid 1] bind(5, {sa_family=AF_INET, sin_port=htons(0)}, 16) = 0
    Syscall(1, "bind", <<Num(5), Sockaddr("AF_INET", "sin_port", Htons(Num(0))),
                         Num(16)>>, 0),
    \* [pid 1] bind(5, {sa_family=AF_INET, sin_port=htons(65616)}, 16) = 0
    Syscall(1, "bind", <<Num(5), Sockaddr("AF_INET", "sin_port", Htons(Num(65616))),
                         Num(16)>>, 0)
}

\* What canonicalize finds for the (at most two) paths a handler resolves
FsOutcomes == [1..2 -> BOOLEAN]

(***************************************************************************)
(* The state of one call of summarize                                      *)
(***************************************************************************)
VARIABLES
    consumed,             \* the Ok items taken from the stream so far
    emitted,              \* per item of consumed, the actions its handler pushed
    actions,              \* the local `actions`
    stats,                \* the local `stats`
    known_sockets_proto,  \* the local `known_sockets_proto`
    status,               \* "running", or how the call ended: "ok", "err", "panic"
    error,                \* the error of an Err return
    result,               \* the list of an Ok return
    set,                  \* a CountableSetSpecifier (or SetSpecifier) value
    set0,                 \* the value `set` started with
    prev,                 \* `set` before the last remove
    removed,              \* the elements removed from `set`, in call order
    other,                \* a second value, the argument of intersects
    ranges_out,           \* what the last call of set.ranges() returned
    intersects_out,       \* what the last calls of intersects returned
    sd_opts,              \* main's `sd_opts`: the catalog of supported options
    main_actions,         \* main's `actions`: what summarize or the merge gave
    resolved_opts,        \* main's `resolved_opts`
    earlier,              \* the actions and the outcome of an earlier resolve
    args,                 \* main's `args.action`
    pc,                   \* the statement of main that runs next
    path_i,               \* the position of a `for path in paths` loop
    calls,                \* the fallible calls main made, in order
    files,                \* the profile data files: path -> content
    main_result,          \* what main returned
    hardening_opts,       \* a cl::HardeningOptions value
    cmdline,              \* a command line: what to_cmdline returned, or typed
    parsed                \* what parsing `cmdline` as HardeningOptions gave

\* The state of a call of summarize
summarizeVars == <<consumed, emitted, actions, stats, known_sockets_proto,
                   status, error, result>>

\* The state of the set specifiers under test
setVars == <<set, set0, prev, removed, other, ranges_out, intersects_out>>

\* The state of the option resolver
resolveVars == <<sd_opts, main_actions, resolved_opts, earlier>>

\* The state of main
mainVars == <<args, pc, path_i, calls, files, main_result>>

\* The state of the command line interface
clVars == <<hardening_opts, cmdline, parsed>>

\* The state outside summarize and the set specifiers
restVars == <<resolveVars, mainVars, clVars>>

vars == <<consumed, emitted, actions, stats, known_sockets_proto, status,
          error, result, set, set0, prev, removed, other, ranges_out,
          intersects_out, sd_opts, main_actions, resolved_opts, earlier,
          args, pc, path_i, calls, files, main_result, hardening_opts,
          cmdline, parsed>>

NoError == [msg |-> "", syscall |-> NoneOpt]

\* No set specifier is under test
SetIdle ==
    /\ set = SetNone
    /\ set0 = SetNone
    /\ prev = SetNone
    /\ removed = <<>>
    /\ other = SetNone
    /\ ranges_out = NoneOpt
    /\ intersects_out = NoneOpt

\* The locals of summarize at its start
SummarizeInit ==
    /\ consumed = <<>>
    /\ emitted = <<>>
    /\ actions = <<>>
    /\ stats = <<>>
    /\ known_sockets_proto = <<>>
    /\ status = "running"
    /\ error = NoError
    /\ result = <<>>

\* No catalog, nothing resolved
ResolveIdle ==
    /\ sd_opts = <<>>
    /\ main_actions = <<>>
    /\ resolved_opts = NoneOpt
    /\ earlier = NoneOpt

\* The profile data paths of the command lines explored
Paths == {"p1", "p2"}

\* The content of a profile data file: none, the bincode container of an
\* action list, or bytes that are no container (an empty or cut file)
Absent == [k |-> "absent"]
Container(acts) == [k |-> "container", actions |-> acts]
Partial == [k |-> "partial"]

\* main is running, returned Ok(()), returned an error with this context
\* (wrapping `source`), or panicked
MainRunning == [k |-> "running"]
MainOk == [k |-> "ok"]
MainErr(context, source) == [k |-> "err", context |-> context, source |-> source]
MainPanic == [k |-> "panic"]

\* main was not started
MainIdle ==
    /\ args = [action |-> "None"]
    /\ pc = "idle"
    /\ path_i = 0
    /\ calls = <<>>
    /\ files = [p \in Paths |-> Absent]
    /\ main_result = MainRunning

HardeningOptions(mode, network_firewalling) ==
    [mode |-> mode, network_firewalling |-> network_firewalling]

\* HardeningOptions::safe()
safe == HardeningOptions("Safe", FALSE)

\* Nothing was parsed yet, the parser accepted with this value, or it
\* rejected the command line
NotParsed == [k |-> "none"]
Accepted(opts) == [k |-> "ok", opts |-> opts]
Rejected == [k |-> "err"]

\* No command line
ClIdle ==
    /\ hardening_opts = safe
    /\ cmdline = NoneOpt
    /\ parsed = NotParsed

RestIdle == ResolveIdle /\ MainIdle /\ ClIdle

Init == SummarizeInit /\ SetIdle /\ RestIdle

\* A return that puts the aggregate first
SyscallsFirst(acts, st) == <<Syscalls(DOMAIN st)>> \o Dedup(acts)

\* The end of summarize: actions.dedup(), then the single Syscalls action
Finalize(acts, st) == Append(Dedup(acts), Syscalls(DOMAIN st))

\* One iteration of `for syscall in syscalls` on an Ok item
Consume(syscall, fs, max) ==
    /\ status = "running"
    /\ Len(consumed) < max
    /\ consumed' = Append(consumed, syscall)
    /\ stats' = StatsCount(stats, syscall.name)
    /\ result' = result
    /\ LET out == Handle(syscall, known_sockets_proto, fs)
       IN /\ actions' = IF out.k = "emit" THEN actions \o out.acts ELSE actions
          /\ emitted' = Append(emitted, IF out.k = "emit" THEN out.acts ELSE <<>>)
          /\ known_sockets_proto' =
                IF out.k = "emit" THEN out.known ELSE known_sockets_proto
          /\ status' = CASE out.k = "err" -> "err"
                         [] out.k = "panic" -> "panic"
                         [] OTHER -> "running"
          /\ error' = IF out.k = "err" THEN out.error ELSE error
    /\ UNCHANGED <<setVars, restVars>>

\* A summarize that notes the error of an Err item and goes on
IoErrorSkipped ==
    /\ status = "running"
    /\ error = NoError
    /\ error' = [msg |-> "io error", syscall |-> NoneOpt]
    /\ UNCHANGED <<consumed, emitted, actions, stats, known_sockets_proto,
                   status, result>>
    /\ UNCHANGED <<setVars, restVars>>

\* `let syscall = syscall?;` on an Err item
IoError ==
    /\ status = "running"
    /\ status' = "err"
    /\ error' = [msg |-> "io error", syscall |-> NoneOpt]
    /\ UNCHANGED <<consumed, emitted, actions, stats, known_sockets_proto, result>>
    /\ UNCHANGED <<setVars, restVars>>

\* The end of the stream: dedup, push Syscalls, return Ok
Finish ==
    /\ status = "running"
    /\ status' = "ok"
    /\ result' = Finalize(actions, stats)
    /\ UNCHANGED <<consumed, emitted, actions, stats, known_sockets_proto, error>>
    /\ UNCHANGED <<setVars, restVars>>

Next ==
    \/ \E syscall \in Records, fs \in FsOutcomes : Consume(syscall, fs, MaxLen)
    \/ IoError
    \/ Finish

Spec == Init /\ [][Next]_vars

\* summarize on streams of socket and bind records
NextNet ==
    \/ \E syscall \in NetRecords, fs \in FsOutcomes :
          Consume(syscall, fs, MaxNetLen)
    \/ Finish

SpecNet == Init /\ [][NextNet]_vars

(***************************************************************************)
(* Vocabulary of the properties                                            *)
(***************************************************************************)
Last(s) == s[Len(s)]
Front(s) == SubSeq(s, 1, Len(s) - 1)

RECURSIVE Flatten(_)
Flatten(ss) == IF ss = <<>> THEN <<>> ELSE Head(ss) \o Flatten(Tail(ss))

\* The elements of s at the indices in idx, in ascending order
RECURSIVE Pick(_, _, _)
Pick(s, idx, i) ==
    IF i > Len(s) THEN <<>>
    ELSE (IF i \in idx THEN <<s[i]>> ELSE <<>>) \o Pick(s, idx, i + 1)

\* The indices that start a run of equal actions
RunHeads(s) == {i \in 1..Len(s) : i = 1 \/ ~ActionEq(s[i], s[i - 1])}

Names(recs) == {recs[i].name : i \in 1..Len(recs)}

HasPathAction(acts) == \E k \in 1..Len(acts) : acts[k].a \in PathActions

\* C1: when summarize returns Ok, the returned list without its last
\* element is the concatenation of what the handlers pushed, in arrival
\* order, with each run of adjacent equal actions reduced to its first
\* element: nothing is reordered, a repetition that is not adjacent stays,
\* and no two neighbours of that prefix are equal.
C1_DedupKeepsOrder ==
    status = "ok" =>
        LET all == Flatten(emitted)
            prefix == Front(result)
        IN /\ prefix = Pick(all, RunHeads(all), 1)
           /\ \A i \in 1..(Len(prefix) - 1) : ~ActionEq(prefix[i], prefix[i + 1])

\* C1 witness: a run was collapsed and a non-adjacent repetition was kept
C1_Witness ==
    /\ status = "ok"
    /\ Len(Front(result)) < Len(Flatten(emitted))
    /\ \E i, j \in 1..(Len(result) - 1) : i + 1 < j /\ result[i] = result[j]

\* C2: when summarize returns Ok the list holds exactly one Syscalls
\* action and it is the last element; the empty stream gives the single
\* action Syscalls({}).
C2_SyscallsLast ==
    status = "ok" =>
        /\ Len(result) >= 1
        /\ Last(result).a = "Syscalls"
        /\ \A i \in 1..(Len(result) - 1) : result[i].a # "Syscalls"
        /\ (consumed = <<>> => result = <<Syscalls({})>>)

\* C2 witness: an Ok return after a stream that pushed several actions
C2_Witness == status = "ok" /\ Len(result) >= 3 /\ Len(consumed) = 1

\* C3: the set of the final Syscalls action is exactly the set of names of
\* the records consumed, whether or not a handler exists for the name or
\* pushed anything.
C3_SyscallSet ==
    status = "ok" => Last(result).names = Names(consumed)

\* C3 witness: an Ok return after a record without handler and a record an
\* Open handler skipped for its unresolved path
C3_Witness ==
    /\ status = "ok"
    /\ \E i, j \in 1..Len(consumed) :
          /\ SYSCALL_MAP(consumed[i].name) = NoInfo
          /\ SYSCALL_MAP(consumed[j].name).h = "Open"
          /\ emitted[j] = <<>>

\* The fd metadata the tracer prints for a socket, a pipe, an epoll and an
\* inotify descriptor (the last two are anon_inode descriptors)
PseudoFdMetadata == {PipeMd, SocketMd, EpollMd, InotifyMd}

\* The metadata of argument idx, when it has any
MetadataAt(syscall, idx) ==
    IF ArgGet(syscall.args, idx).some
    THEN metadata(ArgGet(syscall.args, idx).v)
    ELSE NoneOpt

\* The directory-fd metadata a relative path at path_idx is resolved against
AnchorOf(syscall, relfd_idx, path_idx) ==
    LET p == ArgGet(syscall.args, path_idx)
    IN IF relfd_idx.some /\ IsUnknownBuffer(p) /\ is_relative(p.v.bytes)
       THEN MetadataAt(syscall, relfd_idx.v)
       ELSE NoneOpt

\* The fd metadata a record's handler takes a path from or resolves one
\* against
FdMetadataUsed(syscall) ==
    LET info == SYSCALL_MAP(syscall.name)
        some(o) == IF o.some THEN {o.v} ELSE {}
    IN CASE info.h \in {"Open", "StatPath"} ->
               some(AnchorOf(syscall, info.relfd_idx, info.path_idx))
         [] info.h = "Rename" ->
               some(AnchorOf(syscall, info.relfd_src_idx, info.path_src_idx))
                 \cup some(AnchorOf(syscall, info.relfd_dst_idx, info.path_dst_idx))
         [] info.h = "StatFd" -> some(MetadataAt(syscall, info.fd_idx))
         [] OTHER -> {}

\* C4: every Read, Write or Create action summarize returns carries an
\* absolute path, whatever the directory-fd metadata bytes are.
C4_PathsAbsolute ==
    status = "ok" =>
        \A k \in 1..Len(result) :
            result[k].a \in PathActions => ~is_relative(result[k].path)

\* C5: no Read, Write or Create action summarize returns carries a path
\* that matches the pseudo-fd pattern, and a record whose handler takes its
\* path from, or resolves it against, the metadata of a socket, pipe, epoll
\* or inotify descriptor pushes no filesystem action.
C5_NoPseudoFdPaths ==
    status = "ok" =>
        /\ \A k \in 1..Len(result) :
              result[k].a \in PathActions => ~is_fd_pseudo_path(result[k].path)
        /\ \A i \in 1..Len(consumed) :
              FdMetadataUsed(consumed[i]) \cap PseudoFdMetadata # {}
                  => ~HasPathAction(emitted[i])

\* The arguments a handler requires are present and of the expression
\* variant its patterns name
WellFormed(syscall) ==
    LET info == SYSCALL_MAP(syscall.name)
        arg(idx) == ArgGet(syscall.args, idx)
    IN CASE info.h = "Open" ->
               IsUnknownBuffer(arg(info.path_idx)) /\ IsInteger(arg(info.flags_idx))
         [] info.h = "Rename" ->
               /\ IsUnknownBuffer(arg(info.path_src_idx))
               /\ IsUnknownBuffer(arg(info.path_dst_idx))
               /\ info.flags_idx.some => IsInteger(arg(info.flags_idx.v))
         [] info.h = "StatFd" -> MetadataAt(syscall, info.fd_idx).some
         [] info.h = "StatPath" -> IsUnknownBuffer(arg(info.path_idx))
         [] info.h = "Network" ->
               /\ IsStruct(arg(info.sockaddr_idx))
               /\ "sa_family" \in DOMAIN arg(info.sockaddr_idx).v.members
               /\ IsNamedConstInt(
                     SomeOpt(arg(info.sockaddr_idx).v.members["sa_family"]))
               /\ syscall.name = "bind" => IsLiteralInt(arg(0))
         [] info.h = "SetScheduler" -> IsInteger(arg(1))
         [] info.h = "Socket" -> IsNamedConstInt(arg(0)) /\ IsInteger(arg(1))
         [] info.h = "Mknod" -> IsInteger(arg(info.mode_idx))
         [] info.h = "Mmap" -> IsInteger(arg(info.prot_idx))
         [] info.h = "None" /\ syscall.name = "epoll_ctl" ->
               /\ IsNamedConstInt(arg(1))
               /\ arg(1).v.value.s = "EPOLL_CTL_ADD" =>
                     /\ IsStruct(arg(3))
                     /\ "events" \in DOMAIN arg(3).v.members
                     /\ arg(3).v.members["events"].t = "Integer"
         [] info.h = "None" /\ syscall.name = "timer_create" ->
               IsNamedConstInt(arg(0))
         [] OTHER -> TRUE

\* C6: summarize does not panic on a stream of well-formed records.
C6_NoPanic ==
    (\A i \in 1..Len(consumed) : WellFormed(consumed[i])) => status # "panic"

\* C7 (as claimed): a record with a required argument missing or of the
\* wrong variant makes summarize fail with an error that names the syscall,
\* nothing is returned, and no such record is skipped.
C7_MalformedAlwaysFails ==
    \A i \in 1..Len(consumed) :
        ~WellFormed(consumed[i]) =>
            /\ status = "err"
            /\ i = Len(consumed)
            /\ error.syscall = SomeOpt(consumed[i].name)
            /\ result = <<>>

\* A path argument that resolve_path leaves unresolved
Unresolved(syscall, relfd_idx, path_idx) ==
    ~resolve_path(ArgGet(syscall.args, path_idx).v.bytes, relfd_idx, syscall,
                  FALSE).some

\* The malformed records summarize passes over without an error: a Network
\* record whose sockaddr is missing or no struct, an epoll_ctl whose
\* operation is missing or no named constant, and a rename with an
\* unresolved path (its flags are then not looked at)
SkippedUnchecked(syscall) ==
    LET info == SYSCALL_MAP(syscall.name)
    IN CASE info.h = "Network" ->
               ~IsStruct(ArgGet(syscall.args, info.sockaddr_idx))
         [] info.h = "None" /\ syscall.name = "epoll_ctl" ->
               ~IsNamedConstInt(ArgGet(syscall.args, 1))
         [] info.h = "Rename" ->
               /\ IsUnknownBuffer(ArgGet(syscall.args, info.path_src_idx))
               /\ IsUnknownBuffer(ArgGet(syscall.args, info.path_dst_idx))
               /\ \/ Unresolved(syscall, info.relfd_src_idx, info.path_src_idx)
                  \/ Unresolved(syscall, info.relfd_dst_idx, info.path_dst_idx)
         [] OTHER -> FALSE

\* The errors of a malformed record that do not name the syscall
UnnamedShapeErrors(syscall) ==
    CASE syscall.name = "epoll_ctl" ->
            {"Missing epoll event argument", "Invalid epoll event argument",
             "Missing epoll events struct member", "Invalid epoll struct member"}
      [] syscall.name = "socket" -> {"Unable to parse socket family"}
      [] OTHER -> {}

\* C7 (amended): a record with a required argument missing or of the wrong
\* variant makes summarize fail and return nothing, unless it is one of the
\* records passed over unchecked; the error names the syscall, except the
\* epoll event errors and the family error of a socket record.
C7_MalformedFailsUnlessSkipped ==
    \A i \in 1..Len(consumed) :
        (~WellFormed(consumed[i]) /\ ~SkippedUnchecked(consumed[i])) =>
            /\ status = "err"
            /\ i = Len(consumed)
            /\ emitted[i] = <<>>
            /\ result = <<>>
            /\ \/ error.syscall = SomeOpt(consumed[i].name)
               \/ /\ error.syscall = NoneOpt
                  /\ error.msg \in UnnamedShapeErrors(consumed[i])

\* C7 witness: a malformed record ended a summarization that had pushed
\* actions, with the error that names the syscall
C7_Witness ==
    /\ status = "err"
    /\ Len(consumed) = 2
    /\ actions # <<>>
    /\ ~WellFormed(Last(consumed))
    /\ error = [msg |-> "Unexpected args for",
                syscall |-> SomeOpt(Last(consumed).name)]

\* The greatest and the least member of a set of numbers
MaxOf(S) == CHOOSE x \in S : \A y \in S : y <= x
MinOf(S) == CHOOSE x \in S : \A y \in S : x <= y

\* The NetworkActivity actions among acts
NetworkActivities(acts) == SelectSeq(acts, LAMBDA a : a.a = "NetworkActivity")

\* The Bind actions among acts
BindActivities(acts) ==
    SelectSeq(acts, LAMBDA a : a.a = "NetworkActivity" /\ a.kind = SetOne("Bind"))

\* Record i is a bind whose first argument is a literal fd
IsBindOnFd(i) ==
    consumed[i].name = "bind" /\ IsLiteralInt(ArgGet(consumed[i].args, 0))

\* The earlier socket records of the same pid that returned the fd bind
\* record i names
SocketsBefore(i) ==
    {j \in 1..(i - 1) :
        /\ consumed[j].name = "socket"
        /\ consumed[j].pid = consumed[i].pid
        /\ consumed[j].ret_val = ArgGet(consumed[i].args, 0).v.value.n}

\* The protocol socket record j names, by any of its flags
ProtocolsOf(j) ==
    LET a1 == ArgGet(consumed[j].args, 1)
        fl == IF IsInteger(a1) THEN flags(a1.v.value) ELSE <<>>
    IN {ParseSocketProtocol(fl[k]).v :
            k \in {n \in 1..Len(fl) : ParseSocketProtocol(fl[n]).some}}

\* C8 (as claimed): a bind record emits a Bind action exactly when an earlier
\* socket record of the same pid returned that fd, and the action carries the
\* protocol of the most recent such socket record.
C8_BindIffKnownSocket ==
    \A i \in 1..Len(consumed) :
        IsBindOnFd(i) =>
            LET binds == BindActivities(emitted[i])
                before == SocketsBefore(i)
            IN /\ (binds # <<>>) <=> (before # {})
               /\ before # {} =>
                    \E proto \in ProtocolsOf(MaxOf(before)) :
                        \A k \in 1..Len(binds) : binds[k].proto = SetOne(proto)

\* What holds of the correlation: a bind record that summarize got past
\* emits a Bind action exactly when (pid, fd) is in known_sockets_proto by
\* the socket records before it
BindCorrelation ==
    \A i \in 1..Len(consumed) :
        (IsBindOnFd(i) /\ WellFormed(consumed[i])
                       /\ (i < Len(consumed) \/ status \in {"running", "ok"})) =>
            LET binds == BindActivities(emitted[i])
                before == {j \in SocketsBefore(i) : emitted[j] # <<>>}
            IN /\ (binds # <<>>) <=> (before # {})
               /\ before # {} =>
                    /\ Len(binds) = 1
                    /\ binds[1].proto =
                          emitted[MaxOf(before)][1].proto

\* The members of the sockaddr of bind record i
BindMembers(i) == ArgGet(consumed[i].args, 1).v.members

\* The _port members of the sockaddr of bind record i
PortMembers(i) == {k \in DOMAIN BindMembers(i) : k \in PortSuffixed}

\* The literal K of a port member htons(K) (NoneOpt: not of that form)
PortLiteral(m) ==
    IF m.t = "Macro" /\ m.name = "htons" /\ IsLiteralInt(ArgGet(m.args, 0))
    THEN SomeOpt(ArgGet(m.args, 0).v.value.n)
    ELSE NoneOpt

\* Record i is a well-formed bind on a known socket, of a parsable family
BindOnKnownSocket(i) ==
    /\ IsBindOnFd(i)
    /\ WellFormed(consumed[i])
    /\ SocketsBefore(i) # {}
    /\ ParseSocketFamily(BindMembers(i)["sa_family"].value.s).some

\* Record i emitted the one NetworkActivity of kind Bind, of the family of
\* sa_family and with this local_port
BindEmitted(i, local_port) ==
    LET af == ParseSocketFamily(BindMembers(i)["sa_family"].value.s).v
        na == NetworkActivities(emitted[i])
    IN /\ Len(na) = 1
       /\ na[1].kind = SetOne("Bind")
       /\ na[1].af = SetOne(af)
       /\ na[1].local_port = local_port

\* C9 (as claimed): the Bind action of a bind record on a known socket has
\* kind One(Bind), af One(family of sa_family), and local_port One(K) when
\* the sockaddr has a _port member htons(K) with literal K, None when it has
\* no _port member.
C9_BindFields ==
    \A i \in 1..Len(consumed) :
        BindOnKnownSocket(i) =>
            /\ PortMembers(i) = {} => BindEmitted(i, SetNone)
            /\ \A k \in PortMembers(i) :
                    PortLiteral(BindMembers(i)[k]).some =>
                        BindEmitted(i, SetOne(PortLiteral(BindMembers(i)[k]).v))

\* The ports a NetworkPort holds
Ports == 1..(U16 - 1)

\* What holds of the fields: as C9, for the literals K that are ports
BindFieldsOfPorts ==
    \A i \in 1..Len(consumed) :
        BindOnKnownSocket(i) =>
            /\ PortMembers(i) = {} => BindEmitted(i, SetNone)
            /\ \A k \in PortMembers(i) :
                    (/\ PortLiteral(BindMembers(i)[k]).some
                     /\ PortLiteral(BindMembers(i)[k]).v \in Ports)
                    => BindEmitted(i, SetOne(PortLiteral(BindMembers(i)[k]).v))

\* Socket record i names a family, and flag k of its type names a protocol
SocketNames(i, k) ==
    LET a0 == ArgGet(consumed[i].args, 0)
        a1 == ArgGet(consumed[i].args, 1)
    IN /\ consumed[i].name = "socket"
       /\ IsNamedConstInt(a0)
       /\ ParseSocketFamily(a0.v.value.s).some
       /\ IsInteger(a1)
       /\ k \in 1..Len(flags(a1.v.value))
       /\ flags(a1.v.value)[k] \in SockPrefixed
       /\ ParseSocketProtocol(flags(a1.v.value)[k]).some

\* Socket record i emitted the one SocketCreation action of its family and of
\* the protocol of flag k, and (pid, ret_val) maps to that protocol after it
SocketRecorded(i, k) ==
    LET af == ParseSocketFamily(ArgGet(consumed[i].args, 0).v.value.s).v
        proto == ParseSocketProtocol(
                    flags(ArgGet(consumed[i].args, 1).v.value)[k]).v
        key == <<consumed[i].pid, consumed[i].ret_val>>
    IN /\ emitted[i] = <<NetworkActivity(SetOne(af), SetOne(proto),
                                         SetOne("SocketCreation"), SetAll)>>
       /\ i = Len(consumed) =>
            /\ key \in DOMAIN known_sockets_proto
            /\ known_sockets_proto[key] = proto

\* The type flags of socket record i
SocketFlags(i) ==
    LET a1 == ArgGet(consumed[i].args, 1)
    IN IF IsInteger(a1) THEN flags(a1.v.value) ELSE <<>>

\* C10 (as claimed): a socket record with a parsable family and a SOCK_ flag
\* naming a protocol emits exactly one SocketCreation action and records
\* (pid, ret_val) -> protocol, whatever its return value.
C10_SocketWithProtocolFlag ==
    \A i \in 1..Len(consumed) :
        (\E k \in 1..Len(SocketFlags(i)) : SocketNames(i, k)) =>
            \E k \in 1..Len(SocketFlags(i)) :
                SocketNames(i, k) /\ SocketRecorded(i, k)

\* The first flag of socket record i that starts with SOCK_ (0: none)
FirstSockFlag(i) ==
    LET ks == {k \in 1..Len(SocketFlags(i)) : SocketFlags(i)[k] \in SockPrefixed}
    IN IF ks = {} THEN 0 ELSE MinOf(ks)

\* C10 (amended): a socket record with a parsable family whose first flag
\* starting with SOCK_ names a protocol emits exactly one SocketCreation
\* action and records (pid, ret_val) -> protocol, whatever its return value.
C10_SocketFirstSockFlag ==
    \A i \in 1..Len(consumed) :
        SocketNames(i, FirstSockFlag(i)) => SocketRecorded(i, FirstSockFlag(i))

\* C10 witness: a socket record that returned -1 emitted its SocketCreation
\* action and left (pid, -1) in known_sockets_proto
C10_Witness ==
    /\ consumed # <<>>
    /\ SocketNames(Len(consumed), FirstSockFlag(Len(consumed)))
    /\ Last(consumed).ret_val = -1
    /\ Len(Last(emitted)) = 1
    /\ <<Last(consumed).pid, -1>> \in DOMAIN known_sockets_proto

(***************************************************************************)
(* open and openat under every combination of the flags the handler reads  *)
(***************************************************************************)
OpenAccessModes == {"O_RDONLY", "O_WRONLY", "O_RDWR"}
OpenOptions == <<"O_CREAT", "O_TRUNC">>

\* The flags argument access|options, as the tracer writes it
OpenFlags(access, options) ==
    IF options = <<>> THEN Flag(access)
    ELSE IntArg(BinaryOr(<<NamedConst(access)>>
                         \o [i \in 1..Len(options) |-> NamedConst(options[i])]))

OpenFlagRecords ==
    \* open("/a", access|options) = 3
    {Syscall(1, "open",
             <<Buf(PathA), OpenFlags(access, Pick(OpenOptions, opts, 1))>>, 3) :
        access \in OpenAccessModes, opts \in SUBSET (1..Len(OpenOptions))}
    \cup
    \* openat(AT_FDCWD</d>, "a", access|options) = 3
    {Syscall(1, "openat",
             <<FdArg(AT_FDCWD, DirD), Buf(RelA),
               OpenFlags(access, Pick(OpenOptions, opts, 1))>>, 3) :
        access \in OpenAccessModes, opts \in SUBSET (1..Len(OpenOptions))}
    \cup
    \* openat(AT_FDCWD, "a", O_RDWR|O_CREAT) = 3: no metadata, unresolved
    {Syscall(1, "openat",
             <<IntArg(AT_FDCWD), Buf(RelA), OpenFlags("O_RDWR", <<"O_CREAT">>)>>, 3)}

\* summarize on streams of open and openat records
NextOpen ==
    \/ \E syscall \in OpenFlagRecords, fs \in FsOutcomes :
          Consume(syscall, fs, MaxOpenLen)
    \/ Finish

SpecOpen == Init /\ [][NextOpen]_vars

\* The paths resolve_path can return for the path argument of a record
ResolvedPaths(syscall, relfd_idx, path_idx) ==
    {resolve_path(ArgGet(syscall.args, path_idx).v.bytes, relfd_idx, syscall,
                  exists).v :
        exists \in {e \in BOOLEAN :
                      resolve_path(ArgGet(syscall.args, path_idx).v.bytes,
                                   relfd_idx, syscall, e).some}}

\* The flag names written in an integer argument
FlagNames(arg) == {flags(arg.value)[k] : k \in 1..Len(flags(arg.value))}

\* The actions C11 names for path p and the flag names fl, in its order
OpenActions(p, fl) ==
    (IF "O_CREAT" \in fl THEN <<Create(p)>> ELSE <<>>)
    \o (IF fl \cap {"O_WRONLY", "O_RDWR", "O_TRUNC"} # {} THEN <<Write(p)>>
        ELSE <<>>)
    \o (IF "O_WRONLY" \notin fl THEN <<Read(p)>> ELSE <<>>)

\* C11: an open/openat record whose path resolves to p emits, in this order,
\* Create(p) iff O_CREAT is set, Write(p) iff one of O_WRONLY, O_RDWR, O_TRUNC
\* is set, Read(p) iff O_WRONLY is not set; one of Write(p), Read(p) is
\* always emitted.
C11_OpenActions ==
    \A i \in 1..Len(consumed) :
        LET syscall == consumed[i]
            info == SYSCALL_MAP(syscall.name)
        IN (/\ info.h = "Open"
            /\ WellFormed(syscall)
            /\ ResolvedPaths(syscall, info.relfd_idx, info.path_idx) # {}) =>
              \E p \in ResolvedPaths(syscall, info.relfd_idx, info.path_idx) :
                /\ emitted[i] =
                     OpenActions(p, FlagNames(ArgGet(syscall.args,
                                                     info.flags_idx).v))
                /\ \E k \in 1..Len(emitted[i]) :
                     emitted[i][k] \in {Write(p), Read(p)}

\* C11 witness: openat(AT_FDCWD</d>, "a", O_RDWR|O_CREAT|O_TRUNC) emitted
\* Create, Write and Read of the joined path, after an
\* open("/a", O_WRONLY) that emitted Write alone
C11_Witness ==
    /\ Len(consumed) = 2
    /\ consumed[1].name = "open"
    /\ emitted[1] = <<Write(PathA)>>
    /\ consumed[2].name = "openat"
    /\ FlagNames(consumed[2].args[3]) = {"O_RDWR", "O_CREAT", "O_TRUNC"}
    /\ emitted[2] = <<Create(PathJoin(DirD, RelA)), Write(PathJoin(DirD, RelA)),
                      Read(PathJoin(DirD, RelA))>>

(***************************************************************************)
(* rename, renameat and renameat2 over directories and flags               *)
(***************************************************************************)
RenameDirs == {DirD, DirE}
RenameFlags == {Num(0), Flag("RENAME_NOREPLACE"), Flag("RENAME_EXCHANGE"),
                Or2("RENAME_EXCHANGE", "RENAME_WHITEOUT")}

RenameDirRecords ==
    \* rename("/a", "/b") = 0, rename("a", "/b") = 0
    {Syscall(1, "rename", <<Buf(src), Buf(PathB)>>, 0) : src \in {PathA, RelA}}
    \cup
    \* renameat(AT_FDCWD<src_dir>, "a", AT_FDCWD<dst_dir>, "b") = 0
    {Syscall(1, "renameat", <<FdArg(AT_FDCWD, src_dir), Buf(RelA),
                              FdArg(AT_FDCWD, dst_dir), Buf(RelB)>>, 0) :
        src_dir \in RenameDirs, dst_dir \in RenameDirs}
    \cup
    \* renameat2(AT_FDCWD<src_dir>, "a", AT_FDCWD<dst_dir>, "b", flags) = 0
    {Syscall(1, "renameat2", <<FdArg(AT_FDCWD, src_dir), Buf(RelA),
                               FdArg(AT_FDCWD, dst_dir), Buf(RelB), fl>>, 0) :
        src_dir \in RenameDirs, dst_dir \in RenameDirs, fl \in RenameFlags}
    \cup
    \* renameat2(AT_FDCWD</d>, "a", 4<pipe:[1]>, "b", RENAME_EXCHANGE) = -1
    {Syscall(1, "renameat2", <<FdArg(AT_FDCWD, DirD), Buf(RelA),
                               FdArg(Literal(4), PipeMd), Buf(RelB),
                               Flag("RENAME_EXCHANGE")>>, -1),
    \* renameat(AT_FDCWD</d>, "/a", AT_FDCWD</e>, "/b") = 0
     Syscall(1, "renameat", <<FdArg(AT_FDCWD, DirD), Buf(PathA),
                              FdArg(AT_FDCWD, DirE), Buf(PathB)>>, 0)}

\* summarize on streams of rename records
NextRename ==
    \/ \E syscall \in RenameDirRecords, fs \in FsOutcomes :
          Consume(syscall, fs, MaxRenameLen)
    \/ Finish

SpecRename == Init /\ [][NextRename]_vars

\* The positions (1-based) of the source and destination arguments in the
\* signatures rename(old, new) and renameat[2](olddirfd, old, newdirfd, new):
\* <<directory fd (0: none), path>>
RenameSource(name) == IF name = "rename" THEN <<0, 1>> ELSE <<1, 2>>
RenameDestination(name) == IF name = "rename" THEN <<0, 2>> ELSE <<3, 4>>

\* The path at pos of a record, taken against the directory fd of pos:
\* as joined, or as the filesystem gives it back
OwnDirPaths(syscall, pos) ==
    LET path == syscall.args[pos[2]].bytes
        joined == IF is_relative(path)
                  THEN PathJoin(syscall.args[pos[1]].metadata.v, path)
                  ELSE path
    IN {joined, Realpath(joined)}

\* The flags of a renameat2 contain RENAME_EXCHANGE
HasExchange(syscall) ==
    /\ syscall.name = "renameat2"
    /\ "RENAME_EXCHANGE" \in FlagNames(syscall.args[5])

\* C12: a rename, renameat or renameat2 record whose source and destination
\* both resolve emits Read(src), Write(src), then Read(dst) if the flags
\* contain RENAME_EXCHANGE and Create(dst) otherwise, then Write(dst); a
\* relative path is resolved against its own directory fd.
C12_RenameActions ==
    \A i \in 1..Len(consumed) :
        LET syscall == consumed[i]
            info == SYSCALL_MAP(syscall.name)
        IN (/\ info.h = "Rename"
            /\ WellFormed(syscall)
            /\ ResolvedPaths(syscall, info.relfd_src_idx, info.path_src_idx) # {}
            /\ ResolvedPaths(syscall, info.relfd_dst_idx, info.path_dst_idx) # {})
           => \E src \in OwnDirPaths(syscall, RenameSource(syscall.name)),
                 dst \in OwnDirPaths(syscall, RenameDestination(syscall.name)) :
                 emitted[i] = <<Read(src), Write(src),
                                IF HasExchange(syscall) THEN Read(dst)
                                ELSE Create(dst),
                                Write(dst)>>

\* C12 witness: renameat(AT_FDCWD</d>, "a", AT_FDCWD</e>, "b") emitted
\* Read(/d/a), Write(/d/a), Create(/e/b), Write(/e/b), and a renameat2 with
\* RENAME_EXCHANGE after it read its destination
C12_Witness ==
    /\ Len(consumed) = 2
    /\ consumed[1].name = "renameat"
    /\ emitted[1] = <<Read(PathJoin(DirD, RelA)), Write(PathJoin(DirD, RelA)),
                      Create(PathJoin(DirE, RelB)), Write(PathJoin(DirE, RelB))>>
    /\ HasExchange(consumed[2])
    /\ Len(emitted[2]) = 4
    /\ emitted[2][3] = Read(PathJoin(DirD, RelB))

(***************************************************************************)
(* connect, bind, recvfrom and sendto over socket addresses                *)
(***************************************************************************)
UdsAddresses == {
    \* {sa_family=AF_UNIX, sun_path="/s"}
    SockaddrUn(Buf(PathS)),
    \* {sa_family=AF_UNIX, sun_path="/a/"}
    SockaddrUn(Buf(PathASlash)),
    \* {sa_family=AF_UNIX, sun_path="a"}
    SockaddrUn(Buf(RelA)),
    \* {sa_family=AF_UNIX, sun_path=@"/s"}
    SockaddrUn(BufferExpression(PathS, "AbstractPath")),
    \* {sa_family=AF_UNIX}
    StructExpression("sa_family" :> Flag("AF_UNIX")),
    \* {sa_family=AF_INET, sin_port=htons(8080)}
    Sockaddr("AF_INET", "sin_port", Htons(Num(8080))),
    \* {sa_family=AF_NETLINK, sun_path="/s"}
    StructExpression(("sa_family" :> Flag("AF_NETLINK"))
                     @@ ("sun_path" :> Buf(PathS)))
}

UdsRecords ==
    \* socket(AF_UNIX, SOCK_STREAM, 0) = 5
    {Syscall(1, "socket", <<Flag("AF_UNIX"), Flag("SOCK_STREAM"), Num(0)>>, 5)}
    \cup
    \* connect(5, addr, 16) = 0, bind(5, addr, 16) = 0
    {Syscall(1, name, <<Num(5), addr, Num(16)>>, 0) :
        name \in {"connect", "bind"}, addr \in UdsAddresses}
    \cup
    \* recvfrom(5, "a", 1, 0, addr, [16]) = 1, sendto(5, "a", 1, 0, addr, 16) = 1
    {Syscall(1, name, <<Num(5), Buf(RelA), Num(1), Num(0), addr, Num(16)>>, 1) :
        name \in {"recvfrom", "sendto"}, addr \in UdsAddresses}

\* summarize on streams of records with a socket address
NextUds ==
    \/ \E syscall \in UdsRecords, fs \in FsOutcomes :
          Consume(syscall, fs, MaxUdsLen)
    \/ Finish

SpecUds == Init /\ [][NextUds]_vars

\* The position (1-based) of the socket address in connect(fd, addr, len),
\* bind(fd, addr, len), recvfrom(fd, buf, len, flags, addr, len) and
\* sendto(fd, buf, len, flags, addr, len); 0 for another syscall
SockaddrPosition(name) ==
    CASE name \in {"connect", "bind"} -> 2
      [] name \in {"recvfrom", "sendto"} -> 5
      [] OTHER -> 0

\* Record i has a socket address struct with a named family
HasSockaddr(i) ==
    LET pos == SockaddrPosition(consumed[i].name)
    IN /\ pos # 0
       /\ pos <= Len(consumed[i].args)
       /\ consumed[i].args[pos].t = "Struct"
       /\ "sa_family" \in DOMAIN consumed[i].args[pos].members
       /\ IsNamedConstInt(SomeOpt(consumed[i].args[pos].members["sa_family"]))

SockaddrOf(i) == consumed[i].args[SockaddrPosition(consumed[i].name)].members

\* The socket address of record i is a Unix one with a sun_path that is not
\* abstract
HasUdsPath(i) ==
    /\ HasSockaddr(i)
    /\ SockaddrOf(i)["sa_family"].value.s = "AF_UNIX"
    /\ "sun_path" \in DOMAIN SockaddrOf(i)
    /\ SockaddrOf(i)["sun_path"].t = "Buffer"
    /\ SockaddrOf(i)["sun_path"].type_ = "Unknown"

\* The Read actions among acts
ReadActions(acts) == SelectSeq(acts, LAMBDA a : a.a = "Read")

\* Record i emitted the one Read of path, as written or as the filesystem
\* gives it back
ReadEmitted(i, path) ==
    ReadActions(emitted[i]) \in {<<Read(path)>>, <<Read(Realpath(path))>>}

\* C13 (as claimed): a connect, bind, recvfrom or sendto record whose socket
\* address has sa_family=AF_UNIX and a non-abstract sun_path emits
\* Read(sun_path); with an abstract sun_path or another family it emits no
\* Read.
C13_UdsRead ==
    \A i \in 1..Len(consumed) :
        HasSockaddr(i) =>
            IF HasUdsPath(i)
            THEN ReadEmitted(i, SockaddrOf(i)["sun_path"].bytes)
            ELSE ReadActions(emitted[i]) = <<>>

\* C13 (amended): such a record emits Read(sun_path) when the family is
\* AF_UNIX and sun_path is non-abstract and absolute; with a relative or
\* abstract sun_path or another family it emits no Read.
C13_UdsReadAbsolute ==
    \A i \in 1..Len(consumed) :
        HasSockaddr(i) =>
            IF HasUdsPath(i) /\ ~is_relative(SockaddrOf(i)["sun_path"].bytes)
            THEN ReadEmitted(i, SockaddrOf(i)["sun_path"].bytes)
            ELSE ReadActions(emitted[i]) = <<>>

\* C13 witness: a sendto to {sa_family=AF_UNIX, sun_path="/s"} emitted
\* Read("/s") after a connect to the abstract address of the same bytes
\* emitted nothing
C13_Witness ==
    /\ Len(consumed) = 2
    /\ consumed[1].name = "connect"
    /\ HasSockaddr(1) /\ ~HasUdsPath(1)
    /\ "sun_path" \in DOMAIN SockaddrOf(1)
    /\ SockaddrOf(1)["sa_family"].value.s = "AF_UNIX"
    /\ emitted[1] = <<>>
    /\ consumed[2].name = "sendto"
    /\ HasUdsPath(2)
    /\ emitted[2] = <<Read(PathS)>>

(***************************************************************************)
(* CountableSetSpecifier<NetworkPort> and SetSpecifier                     *)
(***************************************************************************)
SetSome(es) == [k |-> "Some", es |-> es]
SetAllExcept(es) == [k |-> "AllExcept", es |-> es]

\* impl ValueCounted for NetworkPort
value_count == (U16 - 1) - 0
one == 1
min_value == 1
max_value == U16 - 1

\* Vec::contains
VecContains(es, needle) == \E i \in 1..Len(es) : es[i] = needle

\* CountableSetSpecifier::contains_one
contains_one(self, needle) ==
    CASE self.k = "None" -> FALSE
      [] self.k = "One" -> self.e = needle
      [] self.k = "Some" -> VecContains(self.es, needle)
      [] self.k = "AllExcept" -> ~VecContains(self.es, needle)
      [] self.k = "All" -> TRUE

\* CountableSetSpecifier::intersects
intersects(self, oth) ==
    CASE self.k = "None" -> FALSE
      [] self.k = "One" -> contains_one(oth, self.e)
      [] self.k = "Some" ->
            \E i \in 1..Len(self.es) : contains_one(oth, self.es[i])
      [] self.k = "AllExcept" ->
            (CASE oth.k = "None" -> FALSE
               [] oth.k = "One" -> ~VecContains(self.es, oth.e)
               [] oth.k = "Some" ->
                     \E i \in 1..Len(oth.es) : ~VecContains(self.es, oth.es[i])
               [] oth.k = "AllExcept" -> self.es # oth.es
               [] oth.k = "All" -> Len(self.es) < value_count)
      [] self.k = "All" -> oth.k # "None"

\* SetSpecifier::contains_one
SetSpecifier_contains_one(self, needle) ==
    CASE self.k = "None" -> FALSE
      [] self.k = "One" -> self.e = needle
      [] self.k = "Some" -> VecContains(self.es, needle)
      [] self.k = "All" -> TRUE

\* SetSpecifier::intersects
SetSpecifier_intersects(self, oth) ==
    CASE self.k = "None" -> FALSE
      [] self.k = "One" -> SetSpecifier_contains_one(oth, self.e)
      [] self.k = "Some" ->
            \E i \in 1..Len(self.es) : SetSpecifier_contains_one(oth, self.es[i])
      [] self.k = "All" -> oth.k # "None"

\* Vec::remove(idx) and Vec::insert(idx, e), idx 0-based
VecRemove(es, idx) == SubSeq(es, 1, idx) \o SubSeq(es, idx + 2, Len(es))
VecInsert(es, idx, e) == SubSeq(es, 1, idx) \o <<e>> \o SubSeq(es, idx + 1, Len(es))

\* A remove that drops the elements after the removed one as well
removeTruncating(self, to_rm) ==
    CASE self.k = "None" -> Panic("unreachable")
      [] self.k = "One" -> SetNone
      [] self.k = "Some" ->
            IF VecContains(self.es, to_rm)
            THEN SetSome(SubSeq(self.es, 1,
                                MinOf({i \in 1..Len(self.es) :
                                         self.es[i] = to_rm}) - 1))
            ELSE Panic("unwrap")
      [] self.k = "AllExcept" ->
            IF VecContains(self.es, to_rm) THEN Panic("unwrap_err")
            ELSE SetAllExcept(VecInsert(self.es,
                                        Cardinality({i \in 1..Len(self.es) :
                                                       self.es[i] < to_rm}),
                                        to_rm))
      [] self.k = "All" -> SetAllExcept(<<to_rm>>)

\* A remove that puts a new exception at the end of the list
removeAppending(self, to_rm) ==
    CASE self.k = "None" -> Panic("unreachable")
      [] self.k = "One" -> SetNone
      [] self.k = "Some" ->
            IF VecContains(self.es, to_rm)
            THEN SetSome(VecRemove(self.es,
                                   MinOf({i \in 1..Len(self.es) :
                                            self.es[i] = to_rm}) - 1))
            ELSE Panic("unwrap")
      [] self.k = "AllExcept" ->
            IF VecContains(self.es, to_rm) THEN Panic("unwrap_err")
            ELSE SetAllExcept(Append(self.es, to_rm))
      [] self.k = "All" -> SetAllExcept(<<to_rm>>)

\* A remove that puts a new exception at the front of the list
removePrepending(self, to_rm) ==
    CASE self.k = "None" -> Panic("unreachable")
      [] self.k = "One" -> SetNone
      [] self.k = "Some" ->
            IF VecContains(self.es, to_rm)
            THEN SetSome(VecRemove(self.es,
                                   MinOf({i \in 1..Len(self.es) :
                                            self.es[i] = to_rm}) - 1))
            ELSE Panic("unwrap")
      [] self.k = "AllExcept" ->
            IF VecContains(self.es, to_rm) THEN Panic("unwrap_err")
            ELSE SetAllExcept(<<to_rm>> \o self.es)
      [] self.k = "All" -> SetAllExcept(<<to_rm>>)

\* CountableSetSpecifier::remove: the value of self afterwards, or a panic
remove(self, to_rm) ==
    CASE self.k = "None" -> Panic("unreachable")
      [] self.k = "One" -> SetNone
      [] self.k = "Some" ->
            IF VecContains(self.es, to_rm)
            THEN SetSome(VecRemove(self.es,
                                   MinOf({i \in 1..Len(self.es) :
                                            self.es[i] = to_rm}) - 1))
            ELSE Panic("unwrap")
      [] self.k = "AllExcept" ->
            \* binary_search on the ordered exceptions: Err(insertion point)
            IF VecContains(self.es, to_rm) THEN Panic("unwrap_err")
            ELSE SetAllExcept(VecInsert(self.es,
                                        Cardinality({i \in 1..Len(self.es) :
                                                       self.es[i] < to_rm}),
                                        to_rm))
      [] self.k = "All" -> SetAllExcept(<<to_rm>>)

\* RangeInclusive, start..=end
RangeInclusive(start, end) == [start |-> start, end |-> end]
is_empty(r) == r.start > r.end

\* The loop and the tail of the AllExcept arm of ranges
RECURSIVE RangesAllExcept(_, _, _, _)
RangesAllExcept(excs, i, start, rs) ==
    IF i > Len(excs)
    THEN IF start.some /\ ~is_empty(RangeInclusive(start.v, max_value))
         THEN Append(rs, RangeInclusive(start.v, max_value))
         ELSE rs
    ELSE LET exc == excs[i]
             r == RangeInclusive(IF start.some THEN start.v ELSE min_value,
                                 exc - one)
         IN RangesAllExcept(
                excs, i + 1,
                IF exc = max_value THEN NoneOpt ELSE SomeOpt(exc + one),
                IF exc # min_value /\ ~is_empty(r) THEN Append(rs, r) ELSE rs)

\* CountableSetSpecifier::ranges
ranges(self) ==
    CASE self.k = "None" -> <<>>
      [] self.k = "One" -> <<RangeInclusive(self.e, self.e)>>
      [] self.k = "Some" ->
            [i \in 1..Len(self.es) |-> RangeInclusive(self.es[i], self.es[i])]
      [] self.k = "AllExcept" -> RangesAllExcept(self.es, 1, NoneOpt, <<>>)
      [] self.k = "All" -> <<RangeInclusive(min_value, max_value)>>

\* The ports the element lists are drawn from: both ends of the universe,
\* their neighbours and one port in between
PortSamples == {1, 2, 8080, 65534, 65535}

\* The members of a set of numbers in ascending order
RECURSIVE SeqOfSet(_)
SeqOfSet(S) == IF S = {} THEN <<>> ELSE <<MinOf(S)>> \o SeqOfSet(S \ {MinOf(S)})

\* The strictly ascending lists of at most n of the ports in samples
AscendingLists(samples, n) ==
    {SeqOfSet(S) : S \in {T \in SUBSET samples : Cardinality(T) <= n}}

\* The values of CountableSetSpecifier<NetworkPort> over these lists
SetInputs(samples, n) ==
    {SetNone, SetAll}
    \cup {SetOne(p) : p \in samples}
    \cup {SetSome(es) : es \in AscendingLists(samples, n)}
    \cup {SetAllExcept(es) : es \in AscendingLists(samples, n)}

\* A set specifier to call remove and ranges on
InitSet ==
    /\ SummarizeInit
    /\ RestIdle
    /\ set \in SetInputs(PortSamples, MaxSetLen)
    /\ set0 = set
    /\ prev = set
    /\ removed = <<>>
    /\ other = SetNone
    /\ ranges_out = NoneOpt
    /\ intersects_out = NoneOpt

\* set.remove(to_rm), called as documented on an element of the set
Remove(to_rm, max) ==
    /\ Len(removed) < max
    /\ contains_one(set, to_rm)
    /\ prev' = set
    /\ set' = remove(set, to_rm)
    /\ removed' = Append(removed, to_rm)
    /\ ranges_out' = NoneOpt
    /\ intersects_out' = NoneOpt
    /\ UNCHANGED <<set0, other>>
    /\ UNCHANGED <<summarizeVars, restVars>>

\* set.ranges()
Ranges ==
    /\ ranges_out = NoneOpt
    /\ ranges_out' = SomeOpt(ranges(set))
    /\ UNCHANGED <<set, set0, prev, removed, other, intersects_out>>
    /\ UNCHANGED <<summarizeVars, restVars>>

NextSet ==
    \/ \E to_rm \in PortSamples : Remove(to_rm, MaxRemoves)
    \/ Ranges

SpecSet == InitSet /\ [][NextSet]_vars

\* All ports
AllPorts == min_value..max_value

\* The ports a set specifier lists
Listed(s) ==
    CASE s.k = "One" -> {s.e}
      [] s.k \in {"Some", "AllExcept"} -> {s.es[i] : i \in 1..Len(s.es)}
      [] OTHER -> {}

\* The ends of a list of intervals
Ends(rs) == {rs[k].start : k \in 1..Len(rs)} \cup {rs[k].end : k \in 1..Len(rs)}

\* The first and the last port, the ports in marks and their neighbours.
\* Membership in a set specifier that lists a subset of marks, and in a union
\* of intervals with ends in marks, changes from a port to the next only
\* when one of the two is in marks; so two such sets that agree on these
\* ports agree on all ports.
Around(marks) ==
    {p \in {min_value, max_value}
            \cup UNION {{m - 1, m, m + 1} : m \in marks} : p \in AllPorts}

\* Port p is in one of the intervals
Covered(rs, p) == \E k \in 1..Len(rs) : rs[k].start <= p /\ p <= rs[k].end

\* The intervals rs are non-empty, sorted ascending and pairwise disjoint,
\* and their union is the set of the ports p with s.contains_one(p)
RangesAre(rs, s) ==
    /\ \A k \in 1..Len(rs) : rs[k].start <= rs[k].end
    /\ \A k \in 1..(Len(rs) - 1) : rs[k].end < rs[k + 1].start
    /\ \A k \in 1..Len(rs) : rs[k].start \in AllPorts /\ rs[k].end \in AllPorts
    /\ \A p \in Around(Listed(s) \cup Ends(rs)) :
          Covered(rs, p) <=> contains_one(s, p)

\* C14: for any CountableSetSpecifier over ports s (None, One, Some,
\* AllExcept with any strictly ascending list, the empty one included, All)
\* the intervals of s.ranges() are non-empty, pairwise disjoint, sorted
\* ascending, and their union is the set of the ports p with
\* s.contains_one(p).
C14_RangesCoverSet ==
    ranges_out.some => RangesAre(ranges_out.v, set)

\* What holds of ranges: as C14, for every s apart from AllExcept of the
\* empty list
RangesCoverSetWithException ==
    (ranges_out.some /\ set # SetAllExcept(<<>>)) =>
        RangesAre(ranges_out.v, set)

\* C15: after s.remove(e) on an s with s.contains_one(e), s.contains_one(e)
\* is false and s.contains_one(x) is as before for every x other than e.
C15_RemoveFrame ==
    removed # <<>> =>
        LET e == Last(removed)
        IN /\ contains_one(prev, e)
           /\ set.k \in {"None", "One", "Some", "AllExcept", "All"}
           /\ ~contains_one(set, e)
           /\ \A x \in Around(Listed(prev) \cup Listed(set) \cup {e}) \ {e} :
                 contains_one(set, x) = contains_one(prev, x)

\* C15 witness: remove was called on an AllExcept with an exception on
\* either side of the removed port
C15_Witness ==
    /\ removed # <<>>
    /\ prev.k = "AllExcept"
    /\ Len(prev.es) = 2
    /\ prev.es[1] < Last(removed) /\ Last(removed) < prev.es[2]
    /\ set = SetAllExcept(<<prev.es[1], Last(removed), prev.es[2]>>)

\* The elements of a sequence
Range(s) == {s[i] : i \in 1..Len(s)}

\* C18: from All, after remove for any sequence of distinct ports in any
\* order, the set is the same whatever the order, and ranges() returns
\* sorted, disjoint, non-empty intervals whose union is the ports never
\* removed; All, remove(1), remove(65535) gives [2..=65534].
C18_RemovalsFromAll ==
    set0 = SetAll =>
        /\ Cardinality(Range(removed)) = Len(removed)
        /\ removed # <<>> => set = SetAllExcept(SeqOfSet(Range(removed)))
        /\ ranges_out.some =>
              LET rs == ranges_out.v
              IN /\ RangesAre(rs, set)
                 /\ \A p \in Around(Range(removed) \cup Ends(rs)) :
                       Covered(rs, p) <=> p \notin Range(removed)
                 /\ Range(removed) = {min_value, max_value} =>
                       rs = <<RangeInclusive(2, 65534)>>

\* C18 witness: All, remove(65535), remove(1), ranges() returned [2..=65534]
C18_Witness ==
    /\ set0 = SetAll
    /\ removed = <<65535, 1>>
    /\ ranges_out = SomeOpt(<<RangeInclusive(2, 65534)>>)

(***************************************************************************)
(* intersects on pairs of set specifiers                                   *)
(***************************************************************************)
PairSamples == {1, 2, 65535}

\* Two set specifiers
InitPair ==
    /\ SummarizeInit
    /\ RestIdle
    /\ set \in SetInputs(PairSamples, MaxPairLen)
    /\ other \in SetInputs(PairSamples, MaxPairLen)
    /\ set0 = set
    /\ prev = set
    /\ removed = <<>>
    /\ ranges_out = NoneOpt
    /\ intersects_out = NoneOpt

\* set.intersects(&other) and other.intersects(&set) on CountableSetSpecifier
Intersects ==
    /\ intersects_out = NoneOpt
    /\ intersects_out' = SomeOpt([t |-> "CountableSetSpecifier",
                                  ab |-> intersects(set, other),
                                  ba |-> intersects(other, set)])
    /\ UNCHANGED <<set, set0, prev, removed, other, ranges_out>>
    /\ UNCHANGED <<summarizeVars, restVars>>

\* The variants of SetSpecifier
IsSetSpecifier(s) == s.k \in {"None", "One", "Some", "All"}

\* set.intersects(&other) and other.intersects(&set) on SetSpecifier
SetIntersects ==
    /\ intersects_out = NoneOpt
    /\ IsSetSpecifier(set) /\ IsSetSpecifier(other)
    /\ intersects_out' = SomeOpt([t |-> "SetSpecifier",
                                  ab |-> SetSpecifier_intersects(set, other),
                                  ba |-> SetSpecifier_intersects(other, set)])
    /\ UNCHANGED <<set, set0, prev, removed, other, ranges_out>>
    /\ UNCHANGED <<summarizeVars, restVars>>

NextPair ==
    \/ \E to_rm \in PairSamples : Remove(to_rm, MaxPairRemoves)
    \/ Intersects
    \/ SetIntersects

SpecPair == InitPair /\ [][NextPair]_vars

\* C16: intersects is symmetric, a.intersects(b) = b.intersects(a), for
\* SetSpecifier and for CountableSetSpecifier values, those that remove
\* produces included.
C16_IntersectsSymmetric ==
    intersects_out.some => intersects_out.v.ab = intersects_out.v.ba

\* A port is in both sets
HaveCommonPort(a, b) ==
    \E p \in Around(Listed(a) \cup Listed(b)) :
        contains_one(a, p) /\ contains_one(b, p)

\* C17: CountableSetSpecifier::intersects decides non-empty intersection:
\* a.intersects(b) iff some port p has a.contains_one(p) and
\* b.contains_one(p), two AllExcept sets with equal or different exception
\* lists included.
C17_IntersectsDecides ==
    (intersects_out.some /\ intersects_out.v.t = "CountableSetSpecifier") =>
        /\ intersects_out.v.ab <=> HaveCommonPort(set, other)
        /\ intersects_out.v.ba <=> HaveCommonPort(other, set)

\* What holds of intersects: it decides non-empty intersection when the
\* receiver is not All and the two are not both AllExcept
IntersectsDecidesApart ==
    (/\ intersects_out.some
     /\ intersects_out.v.t = "CountableSetSpecifier"
     /\ set.k # "All"
     /\ ~(set.k = "AllExcept" /\ other.k = "AllExcept")) =>
        intersects_out.v.ab <=> HaveCommonPort(set, other)

(***************************************************************************)
(* Paths that cannot be resolved                                           *)
(***************************************************************************)
\* The path argument at path_idx is relative and has nothing to be resolved
\* against: no directory fd, a directory fd without metadata, or one whose
\* metadata is in pseudo
NothingToResolveAgainst(syscall, relfd_idx, path_idx, pseudo) ==
    LET p == ArgGet(syscall.args, path_idx)
    IN /\ IsUnknownBuffer(p)
       /\ is_relative(p.v.bytes)
       /\ \/ ~relfd_idx.some
          \/ ~MetadataAt(syscall, relfd_idx.v).some
          \/ MetadataAt(syscall, relfd_idx.v).v \in pseudo

\* A path the handler of the record needs cannot be resolved
HasUnresolvedPath(syscall, pseudo) ==
    LET info == SYSCALL_MAP(syscall.name)
    IN CASE info.h \in {"Open", "StatPath"} ->
               NothingToResolveAgainst(syscall, info.relfd_idx, info.path_idx,
                                       pseudo)
         [] info.h = "Rename" ->
               \/ NothingToResolveAgainst(syscall, info.relfd_src_idx,
                                          info.path_src_idx, pseudo)
               \/ NothingToResolveAgainst(syscall, info.relfd_dst_idx,
                                          info.path_dst_idx, pseudo)
         [] info.h = "Network" ->
               LET sa == ArgGet(syscall.args, info.sockaddr_idx)
               IN /\ WellFormed(syscall)
                  /\ sa.v.members["sa_family"].value.s = "AF_UNIX"
                  /\ "sun_path" \in DOMAIN sa.v.members
                  /\ IsUnknownBuffer(SomeOpt(sa.v.members["sun_path"]))
                  /\ is_relative(sa.v.members["sun_path"].bytes)
         [] OTHER -> FALSE

\* Record i pushed no action and did not end the summarization
PassedOver(i) ==
    /\ emitted[i] = <<>>
    /\ i = Len(consumed) =>
          \/ status \in {"running", "ok"}
          \/ status = "err" /\ error.msg = "io error"

\* C19: a record with a path that cannot be resolved (a relative path with
\* no directory-fd metadata, or with directory-fd metadata that is a
\* pseudo-fd path) emits no action at all and raises no error, and the
\* following records are processed; a rename with either path unresolved
\* emits none of its four actions.
C19_UnresolvedSkipped ==
    \A i \in 1..Len(consumed) :
        (/\ WellFormed(consumed[i]) \/ SkippedUnchecked(consumed[i])
         /\ HasUnresolvedPath(consumed[i], PseudoFdMetadata)) => PassedOver(i)

\* The pseudo-fd metadata FD_PSEUDO_PATH_REGEX matches
MatchedPseudoFdMetadata == {md \in PseudoFdMetadata : is_fd_pseudo_path(md)}

\* What holds of unresolved paths: as C19, for the open, stat and rename
\* records and the pseudo-fd metadata the pattern matches
UnresolvedSkippedByPattern ==
    \A i \in 1..Len(consumed) :
        (/\ WellFormed(consumed[i]) \/ SkippedUnchecked(consumed[i])
         /\ SYSCALL_MAP(consumed[i].name).h \in {"Open", "StatPath", "Rename"}
         /\ HasUnresolvedPath(consumed[i], MatchedPseudoFdMetadata))
        => PassedOver(i)

(***************************************************************************)
(* mmap, mmap2, shmat, mprotect and pkey_mprotect over protections         *)
(***************************************************************************)
MmapNames == {"mmap", "mmap2", "shmat", "mprotect", "pkey_mprotect"}

Protections == {
    Flag("PROT_NONE"), Flag("PROT_READ"), Flag("PROT_WRITE"), Flag("PROT_EXEC"),
    Or2("PROT_READ", "PROT_WRITE"), Or2("PROT_WRITE", "PROT_EXEC"),
    Or3("PROT_READ", "PROT_WRITE", "PROT_EXEC")
}

\* name(NULL, 4096, prot, MAP_PRIVATE|MAP_ANONYMOUS) = 127
MmapRecords ==
    {Syscall(1, name, <<Flag("NULL"), Num(4096), prot,
                        Or2("MAP_PRIVATE", "MAP_ANONYMOUS")>>, 127) :
        name \in MmapNames, prot \in Protections}

\* summarize on streams of memory mapping records
NextMmap ==
    \/ \E syscall \in MmapRecords, fs \in FsOutcomes :
          Consume(syscall, fs, MaxMmapLen)
    \/ Finish

SpecMmap == Init /\ [][NextMmap]_vars

\* C20: a mmap, mmap2, shmat, mprotect or pkey_mprotect record emits
\* WriteExecuteMemoryMapping iff its protection argument (index 2) has both
\* PROT_WRITE and PROT_EXEC set; with only one of the two it emits nothing.
C20_WriteExecuteMapping ==
    \A i \in 1..Len(consumed) :
        (/\ consumed[i].name \in MmapNames
         /\ Len(consumed[i].args) >= 3
         /\ consumed[i].args[3].t = "Integer") =>
            emitted[i] =
                IF {"PROT_WRITE", "PROT_EXEC"} \subseteq FlagNames(consumed[i].args[3])
                THEN <<WriteExecuteMemoryMapping>>
                ELSE <<>>

\* C20 witness: a mprotect with PROT_READ|PROT_WRITE|PROT_EXEC emitted the
\* action after a mmap with PROT_WRITE alone emitted nothing
C20_Witness ==
    /\ Len(consumed) = 2
    /\ consumed[1].name = "mmap"
    /\ FlagNames(consumed[1].args[3]) = {"PROT_WRITE"}
    /\ emitted[1] = <<>>
    /\ consumed[2].name = "mprotect"
    /\ FlagNames(consumed[2].args[3]) = {"PROT_READ", "PROT_WRITE", "PROT_EXEC"}
    /\ emitted[2] = <<WriteExecuteMemoryMapping>>

(***************************************************************************)
(* epoll_ctl over operations and event arguments                           *)
(***************************************************************************)
\* The operation argument: the three named operations, a number, an or
\* holding EPOLL_CTL_ADD
EpollOps == {
    Flag("EPOLL_CTL_ADD"), Flag("EPOLL_CTL_MOD"), Flag("EPOLL_CTL_DEL"), Num(1),
    Or2("EPOLL_CTL_ADD", "EPOLL_CTL_MOD")
}

\* The event argument: structs with an events member, with and without
\* EPOLLWAKEUP, a struct without the member, a struct whose member is no
\* integer, and NULL
EpollEvents == {
    StructExpression("events" :> Flag("EPOLLIN")),
    StructExpression("events" :> Flag("EPOLLWAKEUP")),
    StructExpression("events" :> Or2("EPOLLIN", "EPOLLWAKEUP")),
    StructExpression("events" :> Num(1)),
    StructExpression("data" :> Num(0)),
    StructExpression("events" :> Buf(PathA)),
    Flag("NULL")
}

\* epoll_ctl(4, op, 5, event) = 0, the same with the event missing, and
\* epoll_ctl(4): no operation
EpollRecords ==
    {Syscall(1, "epoll_ctl", <<Num(4), op, Num(5), evt>>, 0) :
        op \in EpollOps, evt \in EpollEvents}
    \cup {Syscall(1, "epoll_ctl", <<Num(4), op, Num(5)>>, 0) : op \in EpollOps}
    \cup {Syscall(1, "epoll_ctl", <<Num(4)>>, 0)}

\* summarize on streams of epoll_ctl records
NextEpoll ==
    \/ \E syscall \in EpollRecords, fs \in FsOutcomes :
          Consume(syscall, fs, MaxEpollLen)
    \/ Finish

SpecEpoll == Init /\ [][NextEpoll]_vars

\* The operation argument of the record is the constant EPOLL_CTL_ADD
IsEpollAdd(syscall) ==
    /\ Len(syscall.args) >= 2
    /\ syscall.args[2] = Flag("EPOLL_CTL_ADD")

\* The events member of the event struct of the record has EPOLLWAKEUP set
HasEpollWakeup(syscall) ==
    /\ Len(syscall.args) >= 4
    /\ syscall.args[4].t = "Struct"
    /\ "events" \in DOMAIN syscall.args[4].members
    /\ syscall.args[4].members["events"].t = "Integer"
    /\ "EPOLLWAKEUP" \in FlagNames(syscall.args[4].members["events"])

\* C21: an epoll_ctl record emits Wakeup iff its operation argument is the
\* constant EPOLL_CTL_ADD and the events member of its event struct has
\* EPOLLWAKEUP set; an epoll_ctl with any other operation emits no action
\* and raises no error, whatever its other arguments are.
C21_EpollWakeup ==
    \A i \in 1..Len(consumed) :
        consumed[i].name = "epoll_ctl" =>
            /\ emitted[i] =
                  IF IsEpollAdd(consumed[i]) /\ HasEpollWakeup(consumed[i])
                  THEN <<Wakeup>>
                  ELSE <<>>
            /\ (~IsEpollAdd(consumed[i]) /\ i = Len(consumed)) => status # "err"

\* C21 witness: an EPOLL_CTL_DEL with a NULL event passed without action
\* and without error, then an EPOLL_CTL_ADD with EPOLLIN|EPOLLWAKEUP emitted
\* Wakeup
C21_Witness ==
    /\ Len(consumed) = 2
    /\ Len(consumed[1].args) = 4
    /\ HasEpollWakeup(consumed[2])
    /\ consumed[1].args[2] = Flag("EPOLL_CTL_DEL")
    /\ consumed[1].args[4] = Flag("NULL")
    /\ emitted[1] = <<>>
    /\ IsEpollAdd(consumed[2])
    /\ FlagNames(consumed[2].args[4].members["events"]) = {"EPOLLIN", "EPOLLWAKEUP"}
    /\ emitted[2] = <<Wakeup>>
    /\ status = "running"

(***************************************************************************)
(* The option catalog and the resolver (systemd::resolve)                  *)
(***************************************************************************)
\* OptionValue
BooleanValue(b) == [k |-> "Boolean", b |-> b]
StringValue(str) == [k |-> "String", str |-> str]
ListValue(values) == [k |-> "List", values |-> values]

\* A deny effect: a set of clauses, each a predicate over ProgramAction
DenyAction(action) == [k |-> "Action", action |-> action]
DenySyscalls(names) == [k |-> "Syscalls", names |-> names]

OptionValueDescription(value, deny) == [value |-> value, deny |-> deny]
OptionDescription(name, possible_values, mergeable) ==
    [name |-> name, possible_values |-> possible_values, mergeable |-> mergeable]
OptionWithValue(name, value) == [name |-> name, value |-> value]

\* A clause matches an observed action; a Syscalls clause checks membership
\* of any of the denied names in the observed set
Denies(clause, action) ==
    CASE clause.k = "Action" -> action = clause.action
      [] clause.k = "Syscalls" ->
            action.a = "Syscalls" /\ clause.names \cap action.names # {}

\* A candidate is compatible iff, for every observed action, none of its
\* deny effects matches the action
compatible(candidate, observed) ==
    \A i \in 1..Len(observed) :
        \A clause \in candidate.deny : ~Denies(clause, observed[i])

\* The positions of the compatible candidates of an option
CompatibleCandidates(opt, observed) ==
    {i \in 1..Len(opt.possible_values) :
        compatible(opt.possible_values[i], observed)}

\* The list entries of the candidates at positions 1..n that are in `keep`,
\* in catalog order
RECURSIVE MergeEntries(_, _, _)
MergeEntries(opt, keep, n) ==
    IF n = 0 THEN <<>>
    ELSE MergeEntries(opt, keep, n - 1)
         \o (IF n \in keep THEN opt.possible_values[n].value.values ELSE <<>>)

\* A resolver that retains the first compatible candidate
resolve_option_first(opt, observed) ==
    LET keep == CompatibleCandidates(opt, observed)
    IN IF keep = {} THEN NoneOpt
       ELSE IF opt.mergeable
       THEN SomeOpt(OptionWithValue(opt.name,
               ListValue(MergeEntries(opt, keep, Len(opt.possible_values)))))
       ELSE SomeOpt(OptionWithValue(opt.name,
               opt.possible_values[CHOOSE i \in keep : \A j \in keep : i <= j].value))

\* The resolver, per option: iterate the candidates in catalog order, retain
\* the last compatible one; the option is omitted when none is compatible;
\* a mergeable option merges the list entries of its compatible candidates
resolve_option(opt, observed) ==
    LET keep == CompatibleCandidates(opt, observed)
    IN IF keep = {} THEN NoneOpt
       ELSE IF opt.mergeable
       THEN SomeOpt(OptionWithValue(opt.name,
               ListValue(MergeEntries(opt, keep, Len(opt.possible_values)))))
       ELSE SomeOpt(OptionWithValue(opt.name,
               opt.possible_values[CHOOSE i \in keep : \A j \in keep : j <= i].value))

\* systemd::resolve(&sd_opts, &actions, ..): the options that are not
\* omitted, in catalog order
RECURSIVE resolve(_, _)
resolve(opts, observed) ==
    IF opts = <<>> THEN <<>>
    ELSE LET r == resolve_option(Head(opts), observed)
         IN (IF r.some THEN <<r.v>> ELSE <<>>) \o resolve(Tail(opts), observed)

\* The actions given to the resolver
ObservedActions == {Wakeup, SetAlarm, Syscalls({"bind"})}

\* The deny effects of the candidates drawn
DenyEffects == {
    {},
    {DenyAction(Wakeup)},
    {DenyAction(SetAlarm)},
    {DenySyscalls({"bind", "connect"})},
    {DenyAction(Wakeup), DenyAction(SetAlarm)}
}

\* The options drawn: up to n candidates with any of the deny effects, the
\* candidate at position i carrying the string (or the one-entry list) of i
OptionInputs(n) ==
    UNION {
        {OptionDescription("Option",
            [i \in 1..m |->
                OptionValueDescription(
                    IF mergeable THEN ListValue(<<ToString(i)>>)
                    ELSE StringValue(ToString(i)),
                    deny[i])],
            mergeable) : deny \in [1..m -> DenyEffects], mergeable \in BOOLEAN}
        : m \in 1..n}

InitResolve ==
    /\ SummarizeInit
    /\ SetIdle
    /\ ClIdle
    /\ MainIdle
    /\ sd_opts \in {<<opt>> : opt \in OptionInputs(MaxCandidates)}
    /\ main_actions = <<>>
    /\ resolved_opts = NoneOpt
    /\ earlier = NoneOpt

\* resolve on the actions seen so far and `more`
Resolve(more, max) ==
    /\ Len(main_actions) + Len(more) <= max
    /\ main_actions' = main_actions \o more
    /\ resolved_opts' = SomeOpt(resolve(sd_opts, main_actions'))
    /\ earlier' = IF resolved_opts.some
                  THEN SomeOpt([main_actions |-> main_actions,
                                resolved_opts |-> resolved_opts.v])
                  ELSE NoneOpt
    /\ UNCHANGED sd_opts
    /\ UNCHANGED <<summarizeVars, setVars, clVars, mainVars>>

NextResolve ==
    \E n \in 0..MaxObserved : \E more \in [1..n -> ObservedActions] :
        /\ resolved_opts.some => n > 0
        /\ Resolve(more, MaxObserved)

SpecResolve == InitResolve /\ [][NextResolve]_vars

\* What a resolve outcome holds for the option: its entry or nothing
ChosenFor(opt, resolved) ==
    IF \E i \in 1..Len(resolved) : resolved[i].name = opt.name
    THEN SomeOpt(resolved[CHOOSE i \in 1..Len(resolved) :
                              resolved[i].name = opt.name].value)
    ELSE NoneOpt

\* The catalog positions of the option that carry this value
PositionsOf(opt, value) ==
    {i \in 1..Len(opt.possible_values) : opt.possible_values[i].value = value}

\* The value for the option is that of its last candidate none of whose
\* deny effects matches any of the actions; the option is omitted when
\* there is no such candidate
IsLastCompatible(opt, chosen, observed) ==
    LET keep == CompatibleCandidates(opt, observed)
    IN IF keep = {} THEN ~chosen.some
       ELSE /\ chosen.some
            /\ chosen.v = opt.possible_values[MaxOf(keep)].value

\* The value under the larger list is omitted, or it is a candidate at the
\* position of the value under the smaller list or before it
SameOrEarlier(opt, under_b, under_a) ==
    under_b.some =>
        /\ under_a.some
        /\ \E i \in PositionsOf(opt, under_b.v), j \in PositionsOf(opt, under_a.v) :
              i <= j

\* C22 as claimed: for any catalog and any two action lists A and B where B
\* contains every action of A, the value chosen for each option under B is
\* the same as or earlier in catalog order than the value chosen under A, or
\* the option is omitted; the value chosen is always the last candidate none
\* of whose deny effects matches any observed action.
C22_ResolverMonotone ==
    (/\ resolved_opts.some
     /\ earlier.some
     /\ Range(earlier.v.main_actions) \subseteq Range(main_actions)) =>
        \A k \in 1..Len(sd_opts) :
            LET opt == sd_opts[k]
                under_b == ChosenFor(opt, resolved_opts.v)
                under_a == ChosenFor(opt, earlier.v.resolved_opts)
            IN /\ IsLastCompatible(opt, under_b, main_actions)
               /\ SameOrEarlier(opt, under_b, under_a)

\* The list entries of a value chosen for a mergeable option
EntriesOf(chosen) == IF chosen.some THEN Range(chosen.v.values) ELSE {}

\* C22, amended: the above for every option that is not mergeable; a
\* mergeable option is given the list entries of all its compatible
\* candidates in catalog order (or is omitted when it has none), and its
\* entries under B are among its entries under A.
C22_ResolverMonotoneUnmerged ==
    (/\ resolved_opts.some
     /\ earlier.some
     /\ Range(earlier.v.main_actions) \subseteq Range(main_actions)) =>
        \A k \in 1..Len(sd_opts) :
            LET opt == sd_opts[k]
                under_b == ChosenFor(opt, resolved_opts.v)
                under_a == ChosenFor(opt, earlier.v.resolved_opts)
                keep == CompatibleCandidates(opt, main_actions)
            IN IF opt.mergeable
               THEN /\ under_b.some <=> keep # {}
                    /\ under_b.some =>
                          under_b.v = ListValue(MergeEntries(opt, keep,
                                                  Len(opt.possible_values)))
                    /\ EntriesOf(under_b) \subseteq EntriesOf(under_a)
               ELSE /\ IsLastCompatible(opt, under_b, main_actions)
                    /\ SameOrEarlier(opt, under_b, under_a)

\* C22 witness: an option that is not mergeable had its second candidate
\* chosen, and with one more action observed its first candidate
C22_Witness ==
    /\ resolved_opts.some
    /\ earlier.some
    /\ ~sd_opts[1].mergeable
    /\ Len(main_actions) = Len(earlier.v.main_actions) + 1
    /\ ChosenFor(sd_opts[1], earlier.v.resolved_opts) = SomeOpt(StringValue("2"))
    /\ ChosenFor(sd_opts[1], resolved_opts.v) = SomeOpt(StringValue("1"))

(***************************************************************************)
(* main: Action::Run                                                       *)
(***************************************************************************)
\* A fallible call of main followed by `?`: it is recorded; Ok moves on to
\* `next` (main returns Ok(()) when that is its end), Err makes main return
\* the error with its context
Call(at, step, ok, context, next) ==
    /\ pc = at
    /\ calls' = Append(calls, [step |-> step, ok |-> ok])
    /\ pc' = IF ok THEN next ELSE "done"
    /\ main_result' = IF ~ok THEN MainErr(context, NoneOpt)
                      ELSE IF next = "done" THEN MainOk
                      ELSE main_result

\* The steps main made so far
Called(step) == \E i \in 1..Len(calls) : calls[i].step = step
Succeeded(step) ==
    \E i \in 1..Len(calls) : calls[i].step = step /\ calls[i].ok

\* The catalogs sd_options builds on the systems explored
Catalogs == {
    <<>>,
    <<OptionDescription("MemoryDenyWriteExecute",
        <<OptionValueDescription(BooleanValue(TRUE),
                                 {DenyAction(WriteExecuteMemoryMapping)})>>,
        FALSE)>>
}

\* The records the traced command gives
RunRecords == {
    \* epoll_ctl(4, EPOLL_CTL_ADD, 5, {events=EPOLLIN|EPOLLWAKEUP}) = 0
    Syscall(1, "epoll_ctl", <<Num(4), Flag("EPOLL_CTL_ADD"), Num(5),
                StructExpression("events" :> Or2("EPOLLIN", "EPOLLWAKEUP"))>>, 0),
    \* mmap(NULL, 4096, PROT_READ|PROT_WRITE|PROT_EXEC, ...) = 0x7f
    Syscall(1, "mmap", <<Flag("NULL"), Num(4096),
                         Or3("PROT_READ", "PROT_WRITE", "PROT_EXEC")>>, 127),
    \* epoll_ctl(4, EPOLL_CTL_ADD, 5): no event
    Syscall(1, "epoll_ctl", <<Num(4), Flag("EPOLL_CTL_ADD"), Num(5)>>, 0)
}

\* The command line `run [-p PATH] COMMAND..`, with the profile data files
\* as they are before the run
InitRun ==
    /\ SummarizeInit
    /\ SetIdle
    /\ ClIdle
    /\ ResolveIdle
    /\ args \in {[action |-> "Run", profile_data_path |-> path] :
                    path \in {NoneOpt} \cup {SomeOpt(p) : p \in Paths}}
    /\ pc = "sd_options"
    /\ path_i = 0
    /\ calls = <<>>
    /\ files \in [Paths -> {Absent, Container(<<>>)}]
    /\ main_result = MainRunning

\* sysctl::State::fetch()? and sd_options(..)
RunSdOptions ==
    /\ args.action = "Run"
    /\ \E ok \in BOOLEAN :
          /\ Call("sd_options", "sysctl::State::fetch", ok, "", "strace")
          /\ sd_opts' \in IF ok THEN Catalogs ELSE {sd_opts}
    /\ UNCHANGED <<args, path_i, files, main_actions, resolved_opts, earlier>>
    /\ UNCHANGED <<summarizeVars, setVars, clVars>>

\* strace::Strace::run(&cmd, strace_log_path)
RunStrace ==
    /\ \E ok \in BOOLEAN :
          Call("strace", "Strace::run", ok, "Failed to setup strace profiling",
               "signals")
    /\ UNCHANGED <<args, path_i, files>>
    /\ UNCHANGED <<summarizeVars, setVars, clVars, resolveVars>>

\* Signals::new(..) and the signal handling thread
RunSignals ==
    /\ \E ok \in BOOLEAN :
          Call("signals", "Signals::new", ok, "Failed to setup signal handlers",
               "log_lines")
    /\ UNCHANGED <<args, path_i, files>>
    /\ UNCHANGED <<summarizeVars, setVars, clVars, resolveVars>>

\* st.log_lines()
RunLogLines ==
    /\ \E ok \in BOOLEAN :
          Call("log_lines", "log_lines", ok,
               "Failed to setup strace output reader", "summarize")
    /\ UNCHANGED <<args, path_i, files>>
    /\ UNCHANGED <<summarizeVars, setVars, clVars, resolveVars>>

\* summarize::summarize(logs, ..) at work: an Ok item, an Err item, the end
\* of the stream
RunConsume ==
    /\ pc = "summarize"
    /\ \E syscall \in RunRecords, fs \in FsOutcomes :
          Consume(syscall, fs, MaxRunLen)

RunIoError == pc = "summarize" /\ IoError

RunFinish == pc = "summarize" /\ Finish

\* A Run that resolves and reports whether or not a path is given
AfterSummarizeResolve(profile_data_path) == "resolve"

\* `if let Some(profile_data_path) = profile_data_path { .. } else { .. }`
AfterSummarize(profile_data_path) ==
    IF profile_data_path.some THEN "create" ELSE "resolve"

\* `let actions = summarize::summarize(..).context(..)?;`
RunSummarized ==
    /\ pc = "summarize"
    /\ status # "running"
    /\ calls' = Append(calls, [step |-> "summarize", ok |-> status = "ok"])
    /\ main_actions' = IF status = "ok" THEN result ELSE main_actions
    /\ pc' = IF status = "ok" THEN AfterSummarize(args.profile_data_path)
             ELSE "done"
    /\ main_result' =
          CASE status = "ok" -> main_result
            [] status = "err" ->
                  MainErr("Failed to summarize syscalls", SomeOpt(error))
            [] OTHER -> MainPanic
    /\ UNCHANGED <<args, path_i, files, sd_opts, resolved_opts, earlier>>
    /\ UNCHANGED <<summarizeVars, setVars, clVars>>

\* File::create(&profile_data_path): the file is there and empty afterwards
RunCreate ==
    /\ \E ok \in BOOLEAN :
          /\ Call("create", "File::create", ok, "Failed to create", "encode")
          /\ files' = IF ok
                      THEN [files EXCEPT ![args.profile_data_path.v] = Partial]
                      ELSE files
    /\ UNCHANGED <<args, path_i>>
    /\ UNCHANGED <<summarizeVars, setVars, clVars, resolveVars>>

\* bincode::serde::encode_into_std_write(&actions, &mut file, ..), the end
\* of main after it
RunEncode ==
    /\ \E ok \in BOOLEAN :
          /\ Call("encode", "encode_into_std_write", ok,
                  "Failed to serialize profile", "done")
          /\ files' = IF ok
                      THEN [files EXCEPT ![args.profile_data_path.v] =
                                            Container(main_actions)]
                      ELSE files
    /\ UNCHANGED <<args, path_i>>
    /\ UNCHANGED <<summarizeVars, setVars, clVars, resolveVars>>

\* systemd::resolve(&sd_opts, &actions, &hardening_opts)
RunResolve ==
    /\ args.action = "Run"
    /\ pc = "resolve"
    /\ pc' = "report"
    /\ resolved_opts' = SomeOpt(resolve(sd_opts, main_actions))
    /\ calls' = Append(calls, [step |-> "systemd::resolve", ok |-> TRUE])
    /\ UNCHANGED <<args, path_i, files, main_result, sd_opts, main_actions,
                   earlier>>
    /\ UNCHANGED <<summarizeVars, setVars, clVars>>

\* systemd::report_options(resolved_opts), the end of main after it
RunReport ==
    /\ args.action = "Run"
    /\ pc = "report"
    /\ pc' = "done"
    /\ calls' = Append(calls, [step |-> "report_options", ok |-> TRUE])
    /\ main_result' = MainOk
    /\ UNCHANGED <<args, path_i, files>>
    /\ UNCHANGED <<summarizeVars, setVars, clVars, resolveVars>>

NextRun ==
    \/ RunSdOptions
    \/ RunStrace
    \/ RunSignals
    \/ RunLogLines
    \/ RunConsume
    \/ RunIoError
    \/ RunFinish
    \/ RunSummarized
    \/ RunCreate
    \/ RunEncode
    \/ RunResolve
    \/ RunReport

SpecRun == InitRun /\ [][NextRun]_vars

\* The profile data files are as they were when main started
FilesUntouched == ~Called("File::create")

RunReported ==
    /\ args.action = "Run"
    /\ pc = "done"
    /\ args.profile_data_path = NoneOpt
    /\ resolved_opts.some
    /\ Len(resolved_opts.v) = 1
    /\ Succeeded("report_options")
    /\ main_result = MainOk

(***************************************************************************)
(* main: ServiceAction::FinishProfile and ServiceAction::Reset             *)
(***************************************************************************)
\* What service.profiling_result() gives on the services explored
ProfilingResults == {
    <<>>,
    <<OptionWithValue("MemoryDenyWriteExecute", BooleanValue(TRUE))>>
}

\* The command lines `service finish-profile [-a] [-e] [-n] SERVICE` and
\* `service reset SERVICE`
InitService ==
    /\ SummarizeInit
    /\ SetIdle
    /\ ClIdle
    /\ ResolveIdle
    /\ args \in {[action |-> "FinishProfile", apply |-> apply, edit |-> edit,
                  no_restart |-> no_restart] :
                    apply \in BOOLEAN, edit \in BOOLEAN, no_restart \in BOOLEAN}
                \cup {[action |-> "Reset"]}
    /\ pc = "new"
    /\ path_i = 0
    /\ calls = <<>>
    /\ files = [p \in Paths |-> Absent]
    /\ main_result = MainRunning

\* What a step of these two arms leaves alone
ServiceFrame ==
    /\ UNCHANGED <<args, path_i, files>>
    /\ UNCHANGED <<summarizeVars, setVars, clVars>>
    /\ UNCHANGED <<sd_opts, main_actions, earlier>>

\* A FinishProfile that writes the fragment whenever apply is set
AfterProfilingResultApply(apply, resolved) ==
    IF apply THEN "add_hardening_fragment" ELSE "reload"

\* `if apply && !resolved_opts.is_empty() { .. }`
AfterProfilingResult(apply, resolved) ==
    IF apply /\ resolved # <<>> THEN "add_hardening_fragment" ELSE "reload"

\* `if edit { .. }`
AfterAddHardeningFragment(edit) == IF edit THEN "edit_file" ELSE "reload"

\* A FinishProfile that starts the service whatever no_restart is
BeforeStartAlways(no_restart) == "start"

\* `if !no_restart { .. }`
BeforeStart(no_restart) == IF no_restart THEN "done" ELSE "start"

\* `if apply { .. get_exposure_level() .. }`
AfterReload(apply, no_restart) ==
    IF apply THEN "get_exposure_level" ELSE BeforeStart(no_restart)

\* systemd::Service::new(..).context("Invalid service name")?
FinishNew ==
    /\ args.action = "FinishProfile"
    /\ \E ok \in BOOLEAN :
          Call("new", "Service::new", ok, "Invalid service name", "stop")
    /\ UNCHANGED resolved_opts
    /\ ServiceFrame

\* service.action("stop", true)
FinishStop ==
    /\ \E ok \in BOOLEAN :
          Call("stop", "stop", ok, "Failed to stop service",
               "remove_profile_fragment")
    /\ UNCHANGED resolved_opts
    /\ ServiceFrame

\* service.remove_profile_fragment()
FinishRemoveProfileFragment ==
    /\ args.action = "FinishProfile"
    /\ \E ok \in BOOLEAN :
          Call("remove_profile_fragment", "remove_profile_fragment", ok,
               "Failed to remove systemd unit profiling fragment",
               "profiling_result")
    /\ UNCHANGED resolved_opts
    /\ ServiceFrame

\* let resolved_opts = service.profiling_result()?;
FinishProfilingResult ==
    /\ \E ok \in BOOLEAN, resolved \in ProfilingResults :
          /\ Call("profiling_result", "profiling_result", ok, "",
                  AfterProfilingResult(args.apply, resolved))
          /\ resolved_opts' = IF ok THEN SomeOpt(resolved) ELSE resolved_opts
    /\ ServiceFrame

\* service.add_hardening_fragment(resolved_opts)
FinishAddHardeningFragment ==
    /\ \E ok \in BOOLEAN :
          Call("add_hardening_fragment", "add_hardening_fragment", ok,
               "Failed to write systemd unit hardening fragment",
               AfterAddHardeningFragment(args.edit))
    /\ UNCHANGED resolved_opts
    /\ ServiceFrame

\* edit_file(&fragment_path)
FinishEdit ==
    /\ \E ok \in BOOLEAN :
          Call("edit_file", "edit_file", ok, "Failed to edit geneted frament",
               "reload")
    /\ UNCHANGED resolved_opts
    /\ ServiceFrame

\* service.reload_unit_config()
FinishReload ==
    /\ args.action = "FinishProfile"
    /\ \E ok \in BOOLEAN :
          Call("reload", "reload_unit_config", ok,
               "Failed to reload systemd config",
               AfterReload(args.apply, args.no_restart))
    /\ UNCHANGED resolved_opts
    /\ ServiceFrame

\* service.get_exposure_level(), logged when apply is set
FinishExposureLevel ==
    /\ \E ok \in BOOLEAN :
          Call("get_exposure_level", "get_exposure_level", ok,
               "Failed to get exposure level", BeforeStart(args.no_restart))
    /\ UNCHANGED resolved_opts
    /\ ServiceFrame

\* service.action("start", false)
FinishStart ==
    /\ \E ok \in BOOLEAN :
          Call("start", "start", ok, "Failed to start service", "done")
    /\ UNCHANGED resolved_opts
    /\ ServiceFrame

\* A call whose failure ends main as `?` does
NotIgnored(at, step, ok, next) == Call(at, step, ok, "", next)

\* `let _ = call;`: the call is made and its result dropped
Ignored(at, step, ok, next) ==
    /\ pc = at
    /\ calls' = Append(calls, [step |-> step, ok |-> ok])
    /\ pc' = next
    /\ main_result' = IF next = "done" THEN MainOk ELSE main_result

\* systemd::Service::new(..)?
ResetNew ==
    /\ args.action = "Reset"
    /\ \E ok \in BOOLEAN :
          Call("new", "Service::new", ok, "", "reset_profile_fragment")
    /\ UNCHANGED resolved_opts
    /\ ServiceFrame

\* let _ = service.remove_profile_fragment();
ResetRemoveProfileFragment ==
    /\ \E ok \in BOOLEAN :
          Ignored("reset_profile_fragment", "remove_profile_fragment", ok,
                  "reset_hardening_fragment")
    /\ UNCHANGED resolved_opts
    /\ ServiceFrame

\* let _ = service.remove_hardening_fragment();
ResetRemoveHardeningFragment ==
    /\ \E ok \in BOOLEAN :
          Ignored("reset_hardening_fragment", "remove_hardening_fragment", ok,
                  "reset_reload")
    /\ UNCHANGED resolved_opts
    /\ ServiceFrame

\* service.reload_unit_config()
ResetReload ==
    /\ \E ok \in BOOLEAN :
          Call("reset_reload", "reload_unit_config", ok,
               "Failed to reload systemd config", "try-restart")
    /\ UNCHANGED resolved_opts
    /\ ServiceFrame

\* let _ = service.action("try-restart", true);
ResetTryRestart ==
    /\ \E ok \in BOOLEAN : Ignored("try-restart", "try-restart", ok, "done")
    /\ UNCHANGED resolved_opts
    /\ ServiceFrame

NextService ==
    \/ FinishNew
    \/ FinishStop
    \/ FinishRemoveProfileFragment
    \/ FinishProfilingResult
    \/ FinishAddHardeningFragment
    \/ FinishEdit
    \/ FinishReload
    \/ FinishExposureLevel
    \/ FinishStart
    \/ ResetNew
    \/ ResetRemoveProfileFragment
    \/ ResetRemoveHardeningFragment
    \/ ResetReload
    \/ ResetTryRestart

SpecService == InitService /\ [][NextService]_vars

\* The position of the call of a step main made once
CallOf(step) == CHOOSE i \in 1..Len(calls) : calls[i].step = step

\* The step was called, and it succeeded, before the call of `later`
SucceededBefore(step, later) ==
    /\ Succeeded(step)
    /\ CallOf(step) < CallOf(later)

\* The resolved option list is there and not empty
ResolvedSome == resolved_opts.some /\ resolved_opts.v # <<>>

\* C24 as claimed: in FinishProfile a hardening fragment is written iff
\* apply is set and the resolved option list is non-empty; the editor is
\* launched only after that fragment was written and only when edit is set;
\* without apply the hardening configuration is left unchanged.
C24_HardeningFragment ==
    args.action = "FinishProfile" =>
        /\ pc = "done" =>
              (Succeeded("add_hardening_fragment") <=> args.apply /\ ResolvedSome)
        /\ Called("edit_file") =>
              /\ args.edit
              /\ SucceededBefore("add_hardening_fragment", "edit_file")
        /\ ~args.apply =>
              /\ ~Called("add_hardening_fragment")
              /\ ~Called("edit_file")

\* C24, amended: FinishProfile calls add_hardening_fragment iff it got the
\* profiling result, apply is set and the resolved option list is
\* non-empty; the fragment is then written unless the call fails, which
\* ends FinishProfile with an error before anything else is done.  The
\* editor is launched only after the fragment was written and only when
\* edit is set; without apply neither is called.
C24_HardeningFragmentUnlessWriteFails ==
    args.action = "FinishProfile" =>
        /\ pc \notin {"new", "stop", "remove_profile_fragment",
                      "profiling_result", "add_hardening_fragment"} =>
              (Called("add_hardening_fragment") <=> args.apply /\ ResolvedSome)
        /\ (Called("add_hardening_fragment")
            /\ ~Succeeded("add_hardening_fragment")) =>
              /\ calls[Len(calls)].step = "add_hardening_fragment"
              /\ pc = "done"
              /\ main_result.k = "err"
              /\ main_result.context =
                    "Failed to write systemd unit hardening fragment"
        /\ Called("edit_file") =>
              /\ args.edit
              /\ SucceededBefore("add_hardening_fragment", "edit_file")
        /\ ~args.apply =>
              /\ ~Called("add_hardening_fragment")
              /\ ~Called("edit_file")

\* C24 witness: with apply and edit set and a non-empty list the fragment
\* was written and then edited
C24_Witness ==
    /\ args.action = "FinishProfile"
    /\ args.apply
    /\ args.edit
    /\ ResolvedSome
    /\ Called("edit_file")
    /\ SucceededBefore("add_hardening_fragment", "edit_file")
    /\ main_result = MainOk

\* Without apply, and with apply and an empty list, FinishProfile ended
\* with no fragment written
NoFragment ==
    /\ args.action = "FinishProfile"
    /\ main_result = MainOk
    /\ args.apply
    /\ resolved_opts = SomeOpt(<<>>)
    /\ ~Called("add_hardening_fragment")

\* The steps of FinishProfile, in the order of the source
FinishProfileOrder ==
    <<"Service::new", "stop", "remove_profile_fragment", "profiling_result",
      "add_hardening_fragment", "edit_file", "reload_unit_config",
      "get_exposure_level", "start">>

\* The place of a step in that order
PlaceOf(step) ==
    CHOOSE k \in 1..Len(FinishProfileOrder) : FinishProfileOrder[k] = step

\* Every call main made before the call at position i succeeded
EarlierSucceeded(i) == \A j \in 1..(i - 1) : calls[j].ok

\* C29: FinishProfile runs its steps in the fixed order stop service, remove
\* profiling fragment, compute profiling result, optionally write (and edit)
\* the hardening fragment, reload unit configuration, start service; the
\* first failing step aborts all later ones, so the start is run iff
\* no_restart is false and every earlier step succeeded; the start never
\* happens before the reload nor the reload before the profiling fragment
\* was removed.
C29_FinishProfileOrder ==
    args.action = "FinishProfile" =>
        /\ \A i, j \in 1..Len(calls) :
              i < j => PlaceOf(calls[i].step) < PlaceOf(calls[j].step)
        /\ \A i \in 1..Len(calls) :
              ~calls[i].ok =>
                  /\ i = Len(calls)
                  /\ pc = "done"
                  /\ main_result.k = "err"
        /\ \A step \in {"stop", "remove_profile_fragment", "profiling_result",
                        "reload_unit_config"} :
              (pc = "done" /\ \A i \in 1..Len(calls) : calls[i].ok) => Called(step)
        /\ pc = "done" =>
              (Called("start") <=>
                  /\ ~args.no_restart
                  /\ \A i \in 1..Len(calls) : calls[i].step # "start" => calls[i].ok)
        /\ Called("start") =>
              /\ EarlierSucceeded(CallOf("start"))
              /\ SucceededBefore("reload_unit_config", "start")
        /\ Called("reload_unit_config") =>
              SucceededBefore("remove_profile_fragment", "reload_unit_config")

\* C29 witness: a FinishProfile with apply, edit and a restart ran all its
\* steps and started the service
C29_Witness ==
    /\ args.action = "FinishProfile"
    /\ ~args.no_restart
    /\ pc = "done"
    /\ main_result = MainOk
    /\ [i \in 1..Len(calls) |-> calls[i].step] = FinishProfileOrder
    /\ \A i \in 1..Len(calls) : calls[i].ok

\* A FinishProfile whose reload failed never started the service
ReloadFailed ==
    /\ args.action = "FinishProfile"
    /\ ~args.no_restart
    /\ pc = "done"
    /\ Called("reload_unit_config")
    /\ ~Succeeded("reload_unit_config")
    /\ ~Called("start")

\* The calls of Reset after Service::new, in the order of the source
ResetOrder ==
    <<"remove_profile_fragment", "remove_hardening_fragment",
      "reload_unit_config", "try-restart">>

IsAscending(es) == \A i, j \in 1..Len(es) : i < j => es[i] < es[j]

\* The element list of a Some or AllExcept value is strictly ascending
Ordered(self) == self.k \in {"Some", "AllExcept"} => IsAscending(self.es)

\* C26: remove keeps the representation invariant and never grows the set:
\* when the element list of a Some or AllExcept value is strictly ascending
\* before remove(e), with e in the set, it is strictly ascending afterwards,
\* the contained elements shrink by exactly e, and the variant changes only
\* as All to AllExcept([e]), One(e) to None, Some to Some, AllExcept to
\* AllExcept.
C26_RemoveKeepsOrder ==
    (removed # <<>> /\ Ordered(prev) /\ contains_one(prev, Last(removed))) =>
        LET e == Last(removed)
        IN /\ set.k \in {"None", "Some", "AllExcept"}
           /\ Ordered(set)
           /\ ~contains_one(set, e)
           /\ \A x \in Around(Listed(prev) \cup Listed(set) \cup {e}) \ {e} :
                 contains_one(set, x) = contains_one(prev, x)
           /\ prev.k = "All" => set = SetAllExcept(<<e>>)
           /\ prev.k = "One" => prev.e = e /\ set = SetNone
           /\ prev.k = "Some" =>
                 /\ set.k = "Some"
                 /\ Len(set.es) = Len(prev.es) - 1
                 /\ Range(set.es) = Range(prev.es) \ {e}
           /\ prev.k = "AllExcept" =>
                 /\ set.k = "AllExcept"
                 /\ Len(set.es) = Len(prev.es) + 1
                 /\ Range(set.es) = Range(prev.es) \cup {e}

\* C26 witness: two removes in descending order on All left the two
\* exceptions in ascending order
C26_Witness ==
    /\ set0 = SetAll
    /\ Len(removed) = 2
    /\ removed[1] > removed[2]
    /\ prev = SetAllExcept(<<removed[1]>>)
    /\ set = SetAllExcept(<<removed[2], removed[1]>>)

\* A remove on a Some of two left a Some of one
SomeShrunk ==
    /\ removed # <<>>
    /\ prev.k = "Some"
    /\ Len(prev.es) = 2
    /\ set = SetSome(<<prev.es[2]>>)

(***************************************************************************)
(* An Err item in the stream given to summarize                            *)
(***************************************************************************)
\* The stream gave an Err item
IoErrorSeen == error.msg = "io error"

\* C27: when the stream given to summarize holds an Err item, summarize
\* stops at the first one and returns that error unchanged: no later item is
\* consumed, and no action derived from the records before the error, not
\* even the aggregate Syscalls action, is returned; Run fails with that
\* error and neither writes a profile nor resolves options.
C27_IoErrorStops ==
    /\ [](IoErrorSeen =>
            /\ status = "err"
            /\ error = [msg |-> "io error", syscall |-> NoneOpt]
            /\ result = <<>>
            /\ main_actions = <<>>
            /\ ~Called("File::create")
            /\ ~Called("systemd::resolve")
            /\ pc = "done" =>
                  main_result = MainErr("Failed to summarize syscalls",
                                        SomeOpt(error)))
    /\ [][IoErrorSeen => UNCHANGED summarizeVars]_vars

\* C27 witness: the Err item came after a record that had pushed an action,
\* and Run ended with the error
C27_Witness ==
    /\ IoErrorSeen
    /\ Len(consumed) = 1
    /\ actions = <<Wakeup>>
    /\ result = <<>>
    /\ pc = "done"
    /\ main_result.k = "err"

(***************************************************************************)
(* main: Action::MergeProfileData                                          *)
(***************************************************************************)
\* What the profile data files hold before the merge
FileContents == {
    Absent,
    Partial,
    Container(<<Wakeup, Syscalls({"epoll_ctl"})>>),
    Container(<<WriteExecuteMemoryMapping, Syscalls({"mmap"})>>)
}

\* The command line `merge-profile-data PATH..`
InitMerge ==
    /\ SummarizeInit
    /\ SetIdle
    /\ ClIdle
    /\ ResolveIdle
    /\ args \in {[action |-> "MergeProfileData", paths |-> paths] :
                    paths \in UNION {[1..n -> Paths] : n \in 1..MaxPaths}}
    /\ pc = "merge_sd_options"
    /\ path_i = 0
    /\ calls = <<>>
    /\ files \in [Paths -> FileContents]
    /\ main_result = MainRunning

\* sysctl::State::fetch()?, sd_options(..) and the empty `actions`
MergeSdOptions ==
    /\ \E ok \in BOOLEAN :
          /\ Call("merge_sd_options", "sysctl::State::fetch", ok, "", "open")
          /\ sd_opts' \in IF ok THEN Catalogs ELSE {sd_opts}
    /\ path_i' = 1
    /\ main_actions' = <<>>
    /\ UNCHANGED <<args, files, resolved_opts, earlier>>
    /\ UNCHANGED <<summarizeVars, setVars, clVars>>

\* File::open(path): a missing file cannot be opened
MergeOpen ==
    /\ pc = "open"
    /\ \E ok \in BOOLEAN :
          /\ ok => files[args.paths[path_i]] # Absent
          /\ Call("open", "File::open", ok, "Failed to open", "decode")
    /\ UNCHANGED <<args, path_i, files>>
    /\ UNCHANGED <<summarizeVars, setVars, clVars, resolveVars>>

\* A merge that puts the actions of each further file in front
MergedInFront(acc, profile_actions) == profile_actions \o acc

\* actions.append(&mut profile_actions)
Merged(acc, profile_actions) == acc \o profile_actions

\* bincode::serde::decode_from_std_read(&mut file, ..)? and the append;
\* only a container decodes
MergeDecode ==
    /\ pc = "decode"
    /\ \E ok \in BOOLEAN :
          /\ ok => files[args.paths[path_i]].k = "container"
          /\ Call("decode", "decode_from_std_read", ok,
                  "Failed to deserialize profile from",
                  IF path_i = Len(args.paths) THEN "merge_resolve" ELSE "open")
          /\ main_actions' =
                IF ok THEN Merged(main_actions, files[args.paths[path_i]].actions)
                ELSE main_actions
          /\ path_i' = IF ok THEN path_i + 1 ELSE path_i
    /\ UNCHANGED <<args, files, sd_opts, resolved_opts, earlier>>
    /\ UNCHANGED <<summarizeVars, setVars, clVars>>

\* systemd::resolve(&sd_opts, &actions, &hardening_opts)
MergeResolve ==
    /\ pc = "merge_resolve"
    /\ pc' = "merge_report"
    /\ resolved_opts' = SomeOpt(resolve(sd_opts, main_actions))
    /\ calls' = Append(calls, [step |-> "systemd::resolve", ok |-> TRUE])
    /\ UNCHANGED <<args, path_i, files, main_result, sd_opts, main_actions,
                   earlier>>
    /\ UNCHANGED <<summarizeVars, setVars, clVars>>

\* systemd::report_options(resolved_opts)
MergeReport ==
    /\ pc = "merge_report"
    /\ pc' = "remove"
    /\ path_i' = 1
    /\ calls' = Append(calls, [step |-> "report_options", ok |-> TRUE])
    /\ UNCHANGED <<args, files, main_result>>
    /\ UNCHANGED <<summarizeVars, setVars, clVars, resolveVars>>

\* fs::remove_file(&path)?, the end of main after the last one; a missing
\* file cannot be removed
MergeRemove ==
    /\ pc = "remove"
    /\ \E ok \in BOOLEAN :
          /\ ok => files[args.paths[path_i]] # Absent
          /\ Call("remove", "fs::remove_file", ok,
                  "Failed to remove profile file",
                  IF path_i = Len(args.paths) THEN "done" ELSE "remove")
          /\ files' = IF ok THEN [files EXCEPT ![args.paths[path_i]] = Absent]
                      ELSE files
          /\ path_i' = IF ok THEN path_i + 1 ELSE path_i
    /\ UNCHANGED args
    /\ UNCHANGED <<summarizeVars, setVars, clVars, resolveVars>>

NextMerge ==
    \/ MergeSdOptions
    \/ MergeOpen
    \/ MergeDecode
    \/ MergeResolve
    \/ MergeReport
    \/ MergeRemove

SpecMerge == InitMerge /\ [][NextMerge]_vars

\* The action lists held by the files of the first n paths, one after the
\* other in argument order
RECURSIVE Concatenated(_)
Concatenated(n) ==
    IF n = 0 THEN <<>>
    ELSE Concatenated(n - 1) \o files[args.paths[n]].actions

\* How many calls of the step succeeded
SuccessesOf(step) ==
    Cardinality({i \in 1..Len(calls) : calls[i].step = step /\ calls[i].ok})

\* Every path was opened and decoded, and the options were resolved and
\* reported
MergedAndReported ==
    /\ SuccessesOf("File::open") = Len(args.paths)
    /\ SuccessesOf("decode_from_std_read") = Len(args.paths)
    /\ Succeeded("systemd::resolve")
    /\ Succeeded("report_options")

\* C28: in MergeProfileData the merged action list is the concatenation of
\* the action lists of the given profile files in argument order; no profile
\* file is removed unless every file was opened and decoded and the options
\* were resolved and reported; when a file fails to open or decode, all
\* profile files are left in place.
C28_MergeThenRemove ==
    /\ [](args.action = "MergeProfileData" =>
            /\ pc \in {"open", "decode"} => main_actions = Concatenated(path_i - 1)
            /\ pc \in {"merge_resolve", "merge_report"} =>
                  main_actions = Concatenated(Len(args.paths))
            /\ Called("fs::remove_file") => MergedAndReported
            /\ (\E i \in 1..Len(calls) :
                   /\ calls[i].step \in {"File::open", "decode_from_std_read"}
                   /\ ~calls[i].ok) =>
                  /\ pc = "done"
                  /\ main_result.k = "err"
                  /\ ~Called("fs::remove_file"))
    /\ [][/\ files' # files =>
                /\ MergedAndReported
                /\ calls'[Len(calls')] = [step |-> "fs::remove_file", ok |-> TRUE]
          /\ pc \in {"merge_resolve", "merge_report", "remove"} =>
                main_actions' = main_actions]_vars

\* C28 witness: two files with different action lists were merged in
\* argument order, the options reported and both files removed
C28_Witness ==
    /\ args.action = "MergeProfileData"
    /\ args.paths = <<"p2", "p1">>
    /\ main_actions = <<Wakeup, Syscalls({"epoll_ctl"}),
                        WriteExecuteMemoryMapping, Syscalls({"mmap"})>>
    /\ MergedAndReported
    /\ files = [p \in Paths |-> Absent]
    /\ main_result = MainOk

\* The second of two files did not decode and both files are in place
DecodeFailed ==
    /\ args.action = "MergeProfileData"
    /\ Len(args.paths) = 2
    /\ SuccessesOf("decode_from_std_read") = 1
    /\ main_result.k = "err"
    /\ main_result.context = "Failed to deserialize profile from"
    /\ files[args.paths[1]].k = "container"
    /\ files[args.paths[2]] = Partial

(***************************************************************************)
(* cl::HardeningOptions: to_cmdline and the argument parser                *)
(***************************************************************************)
\* Strings are sequences of characters.  The words of the command lines
DashM == <<"-", "m">>
DashF == <<"-", "f">>
DashN == <<"-", "n">>
LongMode == <<"-", "-", "m", "o", "d", "e">>
LongNetworkFirewalling == <<"-", "-", "n", "e", "t", "w", "o", "r", "k", "-", "f", "i", "r", "e", "w", "a", "l", "l", "i", "n", "g">>
WordSafe == <<"s", "a", "f", "e">>
WordAggressive == <<"a", "g", "g", "r", "e", "s", "s", "i", "v", "e">>

\* #[strum(serialize_all = "snake_case")] Display of HardeningMode
ModeDisplay(mode) ==
    CASE mode = "Safe" -> WordSafe
      [] mode = "Aggressive" -> WordAggressive

\* HardeningOptions::to_cmdline: format!("-m {}{}", mode, " -n" or "")
to_cmdline(self) ==
    DashM \o <<" ">> \o ModeDisplay(self.mode)
    \o (IF self.network_firewalling THEN <<" ">> \o DashN ELSE <<>>)

\* The words of a command line: split at spaces
RECURSIVE SplitWords(_, _)
SplitWords(str, word) ==
    IF str = <<>> THEN (IF word = <<>> THEN <<>> ELSE <<word>>)
    ELSE IF Head(str) = " "
    THEN (IF word = <<>> THEN <<>> ELSE <<word>>) \o SplitWords(Tail(str), <<>>)
    ELSE SplitWords(Tail(str), Append(word, Head(str)))

\* clap::ValueEnum of HardeningMode: the value names
ParseMode(word) ==
    CASE word = WordSafe -> SomeOpt("Safe")
      [] word = WordAggressive -> SomeOpt("Aggressive")
      [] OTHER -> NoneOpt

\* The parser the derive of clap::Parser builds for HardeningOptions:
\* -m/--mode takes a value, -f/--network-firewalling is a flag, neither may
\* be given twice, and any other word is rejected.  seen: the arguments given
RECURSIVE ParseWords(_, _, _)
ParseWords(words, opts, seen) ==
    IF words = <<>> THEN Accepted(opts)
    ELSE IF Head(words) \in {DashM, LongMode}
    THEN IF "mode" \in seen \/ Len(words) < 2 \/ ~ParseMode(words[2]).some
         THEN Rejected
         ELSE ParseWords(Tail(Tail(words)),
                         [opts EXCEPT !.mode = ParseMode(words[2]).v],
                         seen \cup {"mode"})
    ELSE IF Head(words) \in {DashF, LongNetworkFirewalling}
    THEN IF "network_firewalling" \in seen THEN Rejected
         ELSE ParseWords(Tail(words),
                         [opts EXCEPT !.network_firewalling = TRUE],
                         seen \cup {"network_firewalling"})
    ELSE Rejected

\* HardeningOptions::try_parse_from on the words of a command line; the
\* defaults are HardeningMode::default() and false
try_parse(str) == ParseWords(SplitWords(str, <<>>), safe, {})

\* The words typed on the command lines explored
TypedWords ==
    {DashM, DashF, DashN, LongMode, LongNetworkFirewalling, WordSafe,
     WordAggressive}

\* The words with one space after each
RECURSIVE JoinWords(_)
JoinWords(words) ==
    IF words = <<>> THEN <<>>
    ELSE Head(words) \o <<" ">> \o JoinWords(Tail(words))

InitCl ==
    /\ SummarizeInit
    /\ SetIdle
    /\ ResolveIdle
    /\ MainIdle
    /\ hardening_opts \in {HardeningOptions(mode, network_firewalling) :
                             mode \in {"Safe", "Aggressive"},
                             network_firewalling \in BOOLEAN}
    /\ cmdline = NoneOpt
    /\ parsed = NotParsed

\* hardening_opts.to_cmdline()
ToCmdline ==
    /\ cmdline = NoneOpt
    /\ cmdline' = SomeOpt(to_cmdline(hardening_opts))
    /\ UNCHANGED <<hardening_opts, parsed>>
    /\ UNCHANGED <<summarizeVars, setVars, resolveVars, mainVars>>

\* A command line typed by hand
Type(words) ==
    /\ cmdline = NoneOpt
    /\ cmdline' = SomeOpt(JoinWords(words))
    /\ UNCHANGED <<hardening_opts, parsed>>
    /\ UNCHANGED <<summarizeVars, setVars, resolveVars, mainVars>>

\* The command line is parsed with the argument definitions of
\* HardeningOptions
Parse ==
    /\ cmdline.some
    /\ parsed = NotParsed
    /\ parsed' = try_parse(cmdline.v)
    /\ UNCHANGED <<hardening_opts, cmdline>>
    /\ UNCHANGED <<summarizeVars, setVars, resolveVars, mainVars>>

NextCl ==
    \/ ToCmdline
    \/ \E n \in 0..MaxWords : \E words \in [1..n -> TypedWords] : Type(words)
    \/ Parse

SpecCl == InitCl /\ [][NextCl]_vars

\* The command line is what to_cmdline returns for hardening_opts, and it
\* was parsed
RoundTripped ==
    /\ cmdline = SomeOpt(to_cmdline(hardening_opts))
    /\ parsed # NotParsed

\* C30: for each of the four HardeningOptions values, the string to_cmdline
\* returns, parsed with the argument definitions of HardeningOptions (-m for
\* the mode, -f for network firewalling), is accepted and yields the same
\* mode and the same network_firewalling.
C30_CmdlineRoundTrip == RoundTripped => parsed = Accepted(hardening_opts)

\* What holds of to_cmdline: the round trip without network firewalling
CmdlineRoundTripUnfirewalled ==
    (RoundTripped /\ ~hardening_opts.network_firewalling) =>
        parsed = Accepted(hardening_opts)

\* The command line of a value with network firewalling is rejected
FirewalledRejected ==
    /\ RoundTripped
    /\ hardening_opts = HardeningOptions("Aggressive", TRUE)
    /\ parsed = Rejected

====
